---- MODULE Spec2Model ----
(***************************************************************************)
(* Policy-type tree of the insurance-claims backend                        *)
(* (src/src/controllers/policy.ts, the first policyController of the file, *)
(* the one src/src/routes/policy_routes.ts wires).                         *)
(*                                                                         *)
(* JSON values are records tagged by t.  A JavaScript string is a sequence *)
(* of one-character strings, so that split, trim, toLowerCase, join and    *)
(* JSON.stringify are computed on characters.  A node's identity (the      *)
(* JavaScript object) is its position: the sequence of indices leading to  *)
(* it from the root array.                                                 *)
(***************************************************************************)
EXTENDS Integers, Sequences, FiniteSets, TLC

VARIABLES
  forest,      \* SpecTree: the forest the tree functions are applied to
  op,          \* SpecTree: the function applied, "input" before
  out,         \* SpecTree: what it returned
  policyType,  \* Spec: the PolicyType table, id -> the record's data or NoRecord
  nextId,      \* Spec: the id the next created record gets
  resp,        \* Spec: the last request and its response
  inflight,    \* the requests under way in the specifications of interleaved
               \* requests, and the order of their reads and writes
  claims,      \* the Claim table: the policy_id of each claim, in order of creation
  requests,    \* SpecLimit: the Map of rateLimit, ip -> the times it recorded
  clock,       \* SpecLimit: Date.now(); SpecReset: the time passed since the issue
  auth         \* SpecReset: the Auth record of the user

treeVars == <<forest, op, out>>
auxVars == <<claims, requests, clock, auth>>
storeVars == <<policyType, nextId, resp, inflight, auxVars>>
vars == <<forest, op, out, policyType, nextId, resp, inflight, claims, requests, clock, auth>>

\* ------------------------------------------------------------ bounds
\* Largest number of nodes of an input forest of SpecTree.
MaxNodes == 3

\* Largest number of nodes of a forest handed to the validator with defects.
MaxRawNodes == 2

\* Largest number of nodes of a forest a node is inserted into.
MaxInsertNodes == 2

\* Largest number of records the PolicyType table gets.
MaxPolicies == 2

\* ------------------------------------------------------------ JSON values
Undef == [t |-> "undefined"]
Null == [t |-> "null"]
Str(s) == [t |-> "string", s |-> s]
Num(n) == [t |-> "number", n |-> n]
Bool(b) == [t |-> "boolean", b |-> b]
Arr(a) == [t |-> "array", a |-> a]
Node(current, child_exists, child) ==
  [t |-> "object", current |-> current, child_exists |-> child_exists, child |-> child]

\* JavaScript truthiness (!v is ~Truthy(v)).
Truthy(v) ==
  CASE v.t = "undefined" -> FALSE
    [] v.t = "null" -> FALSE
    [] v.t = "string" -> v.s # <<>>
    [] v.t = "number" -> v.n # 0
    [] v.t = "boolean" -> v.b
    [] OTHER -> TRUE

\* typeof v
TypeOf(v) ==
  CASE v.t = "null" -> "object"
    [] v.t = "array" -> "object"
    [] OTHER -> v.t

\* v.f for f in current, child_exists, child: a property no array or primitive has.
\* On undefined and null the access throws; Throws covers those before Field is used.
Field(v, f) == IF v.t = "object" THEN v[f] ELSE Undef

\* ------------------------------------------------------------ strings
Lower(c) == CASE c = "A" -> "a" [] c = "B" -> "b" [] OTHER -> c

toLowerCase(s) == [i \in 1..Len(s) |-> Lower(s[i])]

IsSpace(c) == c = " "

RECURSIVE trimStart(_)
trimStart(s) == IF s # <<>> /\ IsSpace(Head(s)) THEN trimStart(Tail(s)) ELSE s

RECURSIVE trimEnd(_)
trimEnd(s) ==
  IF s # <<>> /\ IsSpace(s[Len(s)]) THEN trimEnd(SubSeq(s, 1, Len(s) - 1)) ELSE s

trim(s) == trimEnd(trimStart(s))

\* s.split(">")
RECURSIVE split(_, _)
split(s, sep) ==
  LET hits == {i \in 1..Len(s) : s[i] = sep}
  IN IF hits = {} THEN <<s>>
     ELSE LET i == CHOOSE k \in hits : \A j \in hits : k <= j
          IN <<SubSeq(s, 1, i - 1)>> \o split(SubSeq(s, i + 1, Len(s)), sep)

\* What Array.prototype.join writes for one element.
ToJoinString(v) ==
  CASE v.t = "string" -> v.s
    [] v.t = "number" -> <<"5">>
    [] OTHER -> <<>>

\* xs.join(sep), xs a sequence of JSON values
RECURSIVE join(_, _)
join(xs, sep) ==
  IF xs = <<>> THEN <<>>
  ELSE IF Len(xs) = 1 THEN ToJoinString(xs[1])
  ELSE ToJoinString(xs[1]) \o sep \o join(Tail(xs), sep)

PathSeparator == <<" ", ">", " ">>

\* path.split(">").map((p) => p.trim().toLowerCase())
RECURSIVE mapLower(_)
mapLower(parts) ==
  IF parts = <<>> THEN <<>>
  ELSE <<toLowerCase(Head(parts))>> \o mapLower(Tail(parts))

\* Mutant of pathArray: the segments are not trimmed.
pathArrayUntrimmed(path) == mapLower(split(path, ">"))

RECURSIVE mapTrimLower(_)
mapTrimLower(parts) ==
  IF parts = <<>> THEN <<>>
  ELSE <<toLowerCase(trim(Head(parts)))>> \o mapTrimLower(Tail(parts))

pathArray(path) == mapTrimLower(split(path, ">"))

\* ------------------------------------------------------------ positions
\* The node at position pos of the array items (pos non-empty).
RECURSIVE NodeAt(_, _)
NodeAt(items, pos) ==
  IF Len(pos) = 1 THEN items[pos[1]]
  ELSE NodeAt(items[pos[1]].child.a, Tail(pos))

\* The elements a for...of over v visits: an array's elements, a string's characters.
Items(v) ==
  IF v.t = "array" THEN v.a
  ELSE [i \in 1..Len(v.s) |-> Str(<<v.s[i]>>)]

\* ------------------------------------------------------------ tree functions
\* Mutant of Descends: the flag is not looked at.
DescendsIntoAnyChild(node) == Truthy(Field(node, "child"))

\* node.child_exists && node.child
Descends(node) ==
  Truthy(Field(node, "child_exists")) /\ Truthy(Field(node, "child"))

\* Mutant of flattenEntry: the path is lowercased and the level counts from 0.
flattenEntryLowercased(node, currentPath, pos) ==
  [name |-> Field(node, "current"),
   path |-> toLowerCase(join(currentPath, PathSeparator)),
   level |-> Len(currentPath) - 1,
   has_children |-> Field(node, "child_exists"),
   full_path |-> currentPath,
   node |-> pos]

\* The entry flattenPolicyStructure pushes for node; node is the position of the
\* node that produced it.
flattenEntry(node, currentPath, pos) ==
  [name |-> Field(node, "current"),
   path |-> join(currentPath, PathSeparator),
   level |-> Len(currentPath),
   has_children |-> Field(node, "child_exists"),
   full_path |-> currentPath,
   node |-> pos]

\* flattenPolicyStructure(nodes, path); at is the position of the parent of nodes.
\* Mutant of flattenFrom: the entry of a node is pushed after the entries of its
\* children.
RECURSIVE flattenChildrenFirstFrom(_, _, _, _, _)
flattenChildrenFirstFrom(nodes, from, to, path, at) ==
  IF from > to THEN <<>>
  ELSE IF from < to
  THEN LET mid == (from + to) \div 2
       IN flattenChildrenFirstFrom(nodes, from, mid, path, at)
          \o flattenChildrenFirstFrom(nodes, mid + 1, to, path, at)
  ELSE LET node == nodes[from]
           currentPath == Append(path, Field(node, "current"))
           entry == flattenEntry(node, currentPath, Append(at, from))
           below == IF Descends(node)
                    THEN flattenChildrenFirstFrom(Items(node.child), 1,
                                                  Len(Items(node.child)),
                                                  currentPath, Append(at, from))
                    ELSE <<>>
       IN below \o <<entry>>

\* The loop over nodes[from..to]; the range is halved so that a long sequence
\* (the characters of a stored string) nests no deeper than its logarithm.
RECURSIVE flattenFrom(_, _, _, _, _)
flattenFrom(nodes, from, to, path, at) ==
  IF from > to THEN <<>>
  ELSE IF from < to
  THEN LET mid == (from + to) \div 2
       IN flattenFrom(nodes, from, mid, path, at) \o flattenFrom(nodes, mid + 1, to, path, at)
  ELSE LET node == nodes[from]
           currentPath == Append(path, Field(node, "current"))
           entry == flattenEntry(node, currentPath, Append(at, from))
           below == IF Descends(node)
                    THEN flattenFrom(Items(node.child), 1, Len(Items(node.child)),
                                     currentPath, Append(at, from))
                    ELSE <<>>
       IN <<entry>> \o below

flattenPolicyStructure(nodes) == flattenFrom(nodes, 1, Len(nodes), <<>>, <<>>)

\* What findNodeByPath comes to: the node it returns (by position), null, or a
\* TypeError thrown on the way.
Found(pos) == [res |-> "found", node |-> pos]
NotFound == [res |-> "null", node |-> <<>>]
Thrown == [res |-> "throw", node |-> <<>>]

\* node.current.toLowerCase() throws unless node.current is a string.
HasStringLabel(node) ==
  node.t \notin {"undefined", "null"} /\ Field(node, "current").t = "string"

\* Mutant of findNodeByPath: when the segments after a matching node fail below
\* it, that node is returned.
RECURSIVE findDeepestFrom(_, _, _, _)
findDeepestFrom(nodes, i, targetPath, at) ==
  IF i > Len(nodes) THEN NotFound
  ELSE LET node == nodes[i]
           below == findDeepestFrom(Items(node.child), 1, Tail(targetPath), Append(at, i))
       IN IF ~HasStringLabel(node) THEN Thrown
          ELSE IF toLowerCase(Field(node, "current").s) = targetPath[1]
          THEN IF Len(targetPath) = 1
               THEN Found(Append(at, i))
               ELSE IF Descends(node)
                    THEN IF below = NotFound THEN Found(Append(at, i)) ELSE below
                    ELSE findDeepestFrom(nodes, i + 1, targetPath, at)
          ELSE findDeepestFrom(nodes, i + 1, targetPath, at)

findNodeByPathDeepest(nodes, targetPath) == findDeepestFrom(nodes, 1, targetPath, <<>>)

\* findNodeByPath(nodes, targetPath)
RECURSIVE findFrom(_, _, _, _)
findFrom(nodes, i, targetPath, at) ==
  IF i > Len(nodes) THEN NotFound
  ELSE LET node == nodes[i]
       IN IF ~HasStringLabel(node) THEN Thrown
          ELSE IF toLowerCase(Field(node, "current").s) = targetPath[1]
          THEN IF Len(targetPath) = 1
               THEN Found(Append(at, i))
               ELSE IF Descends(node)
                    THEN findFrom(Items(node.child), 1, Tail(targetPath), Append(at, i))
                    ELSE findFrom(nodes, i + 1, targetPath, at)
          ELSE findFrom(nodes, i + 1, targetPath, at)

findNodeByPath(nodes, targetPath) == findFrom(nodes, 1, targetPath, <<>>)

\* String.prototype.includes
includes(s, t) ==
  \E i \in 0..(Len(s) - Len(t)) : SubSeq(s, i + 1, i + Len(t)) = t

\* Mutant of labelIncludes: the label and the term are compared as they are.
labelIncludesExactCase(node, searchTerm) == includes(node.current.s, searchTerm)

\* node.current.toLowerCase().includes(searchTerm.toLowerCase())
labelIncludes(node, searchTerm) ==
  includes(toLowerCase(node.current.s), toLowerCase(searchTerm))

\* searchInPolicyData(nodes, searchTerm): nodes.some(...)
RECURSIVE searchInPolicyData(_, _)
searchInPolicyData(nodes, searchTerm) ==
  \E i \in 1..Len(nodes) :
    \/ labelIncludes(nodes[i], searchTerm)
    \/ /\ Descends(nodes[i])
       /\ searchInPolicyData(Items(nodes[i].child), searchTerm)

\* The status and error getPolicyNodeByPath answers for what findNodeByPath
\* returned.
nodeByPathAnswer(foundNode) ==
  IF foundNode.res = "throw"
  THEN [status |-> 500, error |-> "Failed to fetch policy node"]
  ELSE IF foundNode.res = "null"
  THEN [status |-> 404, error |-> "Policy node not found at specified path"]
  ELSE [status |-> 200, error |-> ""]

\* Mutant of IsLeaf: a node with nothing below it counts as a leaf.
IsLeafWhenChildless(node) ==
  \/ ~Truthy(Field(node, "child_exists"))
  \/ Field(node, "child") = Arr(<<>>)

\* !node.child_exists
IsLeaf(node) == ~Truthy(Field(node, "child_exists"))

\* getLeafNodes(nodes, path)
\* Mutant of leafFrom: a node with a true flag is pushed as well before its
\* children are visited.
RECURSIVE leafWithInternalFrom(_, _, _, _, _)
leafWithInternalFrom(nodes, from, to, path, at) ==
  IF from > to THEN <<>>
  ELSE IF from < to
  THEN LET mid == (from + to) \div 2
       IN leafWithInternalFrom(nodes, from, mid, path, at)
          \o leafWithInternalFrom(nodes, mid + 1, to, path, at)
  ELSE LET node == nodes[from]
           currentPath == Append(path, Field(node, "current"))
           here == <<[name |-> Field(node, "current"),
                      path |-> join(currentPath, PathSeparator),
                      level |-> Len(currentPath),
                      full_path |-> currentPath,
                      node |-> Append(at, from)]>>
       IN IF IsLeaf(node) THEN here
          ELSE IF Truthy(Field(node, "child"))
               THEN here \o leafWithInternalFrom(Items(node.child), 1,
                                                  Len(Items(node.child)),
                                                  currentPath, Append(at, from))
               ELSE here

RECURSIVE leafFrom(_, _, _, _, _)
leafFrom(nodes, from, to, path, at) ==
  IF from > to THEN <<>>
  ELSE IF from < to
  THEN LET mid == (from + to) \div 2
       IN leafFrom(nodes, from, mid, path, at) \o leafFrom(nodes, mid + 1, to, path, at)
  ELSE LET node == nodes[from]
           currentPath == Append(path, Field(node, "current"))
       IN IF IsLeaf(node)
          THEN <<[name |-> Field(node, "current"),
                  path |-> join(currentPath, PathSeparator),
                  level |-> Len(currentPath),
                  full_path |-> currentPath,
                  node |-> Append(at, from)]>>
          ELSE IF Truthy(Field(node, "child"))
               THEN leafFrom(Items(node.child), 1, Len(Items(node.child)),
                             currentPath, Append(at, from))
               ELSE <<>>

getLeafNodes(nodes) == leafFrom(nodes, 1, Len(nodes), <<>>, <<>>)

\* Mutant of validatePolicyNode: the children are not validated.
validatePolicyNodeShallow(node) ==
  IF ~Truthy(node) \/ TypeOf(node) # "object" THEN FALSE
  ELSE IF ~Truthy(Field(node, "current")) \/ TypeOf(Field(node, "current")) # "string"
       THEN FALSE
  ELSE IF TypeOf(Field(node, "child_exists")) # "boolean" THEN FALSE
  ELSE IF Field(node, "child_exists").b
       THEN ~(~Truthy(Field(node, "child")) \/ Field(node, "child").t # "array")
       ELSE TRUE

\* validatePolicyNode(node)
RECURSIVE validatePolicyNode(_)
validatePolicyNode(node) ==
  IF ~Truthy(node) \/ TypeOf(node) # "object" THEN FALSE
  ELSE IF ~Truthy(Field(node, "current")) \/ TypeOf(Field(node, "current")) # "string"
       THEN FALSE
  ELSE IF TypeOf(Field(node, "child_exists")) # "boolean" THEN FALSE
  ELSE IF Field(node, "child_exists").b
       THEN IF ~Truthy(Field(node, "child")) \/ Field(node, "child").t # "array"
            THEN FALSE
            ELSE \A k \in 1..Len(node.child.a) : validatePolicyNode(node.child.a[k])
       ELSE TRUE

\* data.every(validatePolicyNode)
isValidStructure(data) == \A k \in 1..Len(data) : validatePolicyNode(data[k])

\* The level counts of countNodesByLevel: a map from level to count.
\* Mutant of MergeCounts: a count of the children replaces the count of the level.
MergeCountsOverwriting(counts, childCounts) ==
  [l \in (DOMAIN counts) \cup (DOMAIN childCounts) |->
     IF l \in DOMAIN childCounts THEN childCounts[l] ELSE counts[l]]

\* Object.entries(childCounts).forEach(...): the counts of the children are
\* added to the counts so far.
MergeCounts(counts, childCounts) ==
  [l \in (DOMAIN counts) \cup (DOMAIN childCounts) |->
     (IF l \in DOMAIN counts THEN counts[l] ELSE 0)
     + (IF l \in DOMAIN childCounts THEN childCounts[l] ELSE 0)]

\* countNodesByLevel(nodes, level)
RECURSIVE countNodesByLevel(_, _)
RECURSIVE countFrom(_, _, _, _)
countFrom(nodes, from, to, level) ==
  IF from > to THEN <<>>
  ELSE IF from < to
  THEN LET mid == (from + to) \div 2
       IN MergeCounts(countFrom(nodes, from, mid, level),
                      countFrom(nodes, mid + 1, to, level))
  ELSE LET node == nodes[from]
       IN IF Descends(node)
          THEN countNodesByLevel(Items(node.child), level + 1)
          ELSE <<>>

countNodesByLevel(nodes, level) ==
  MergeCounts([l \in {level} |-> Len(nodes)], countFrom(nodes, 1, Len(nodes), level))

RECURSIVE SumOver(_, _)
SumOver(f, keys) ==
  IF keys = {} THEN 0
  ELSE LET k == CHOOSE x \in keys : TRUE IN f[k] + SumOver(f, keys \ {k})

\* Object.values(levelCounts).reduce((sum, count) => sum + count, 0)
totalNodes(levelCounts) == SumOver(levelCounts, DOMAIN levelCounts)

\* Math.max(...Object.keys(levelCounts).map(Number))
maxDepth(levelCounts) ==
  CHOOSE m \in DOMAIN levelCounts : \A l \in DOMAIN levelCounts : l <= m

\* Every node held in any children array, flagged or not.
RECURSIVE CountEveryNode(_)
RECURSIVE CountEveryNodeFrom(_, _)
CountEveryNodeFrom(nodes, i) ==
  IF i > Len(nodes) THEN 0
  ELSE 1 + (IF Field(nodes[i], "child").t = "array"
            THEN CountEveryNode(nodes[i].child.a) ELSE 0)
         + CountEveryNodeFrom(nodes, i + 1)

CountEveryNode(nodes) == CountEveryNodeFrom(nodes, 1)

\* ------------------------------------------------------------ node insertion
\* Mutant of OrElse: what the client supplied is dropped.
OrElseDefault(x, y) == y

\* x || y
OrElse(x, y) == IF Truthy(x) THEN x ELSE y

\* Mutant of NewEntry: the flag is derived from the presence of children.
NewEntryFlaggedByChildren(newNode) ==
  Node(Field(newNode, "current"),
       Bool(Truthy(Field(newNode, "child"))),
       OrElse(Field(newNode, "child"), Arr(<<>>)))

\* The node addPolicyNode pushes for newNode.
NewEntry(newNode) ==
  Node(Field(newNode, "current"),
       OrElse(Field(newNode, "child_exists"), Bool(FALSE)),
       OrElse(Field(newNode, "child"), Arr(<<>>)))

\* What addToParent comes to: true with the mutated nodes and the position of the
\* parent, false, or a TypeError thrown on the way.
Added(nodes, pos) == [res |-> "added", nodes |-> nodes, parent |-> pos]
NotAdded == [res |-> "notfound", nodes |-> <<>>, parent |-> <<>>]
AddThrown == [res |-> "throw", nodes |-> <<>>, parent |-> <<>>]

\* if (!node.child) node.child = []; node.child.push(entry); node.child_exists = true
RECURSIVE addToParentFrom(_, _, _, _, _)
PushChild(nodes, i, entry, at) ==
  LET node == nodes[i]
      kids == IF Truthy(node.child) THEN node.child ELSE Arr(<<>>)
  IN IF kids.t # "array" THEN AddThrown
     ELSE Added([nodes EXCEPT ![i] = [node EXCEPT !.child = Arr(Append(kids.a, entry)),
                                                  !.child_exists = Bool(TRUE)]],
                Append(at, i))

\* return addToParent(node.child, targetPath.slice(1))
DescendToAdd(nodes, i, targetPath, entry, at) ==
  LET node == nodes[i]
  IN IF node.child.t \notin {"array", "string"} THEN AddThrown
     ELSE LET below == addToParentFrom(Items(node.child), 1, Tail(targetPath), entry,
                                       Append(at, i))
          IN IF below.res = "added"
             THEN Added([nodes EXCEPT ![i] = [node EXCEPT !.child = Arr(below.nodes)]],
                        below.parent)
             ELSE below

\* addToParent(nodes, targetPath)
addToParentFrom(nodes, i, targetPath, entry, at) ==
  IF i > Len(nodes) THEN NotAdded
  ELSE LET node == nodes[i]
       IN IF ~HasStringLabel(node) THEN AddThrown
          ELSE IF toLowerCase(Field(node, "current").s) = targetPath[1]
          THEN IF Len(targetPath) = 1
               THEN PushChild(nodes, i, entry, at)
               ELSE IF Truthy(Field(node, "child"))
                    THEN DescendToAdd(nodes, i, targetPath, entry, at)
                    ELSE addToParentFrom(nodes, i + 1, targetPath, entry, at)
          ELSE addToParentFrom(nodes, i + 1, targetPath, entry, at)

addToParent(policyData, targetPath, entry) ==
  addToParentFrom(Items(policyData), 1, targetPath, entry, <<>>)

\* The responses of addPolicyNode and what it hands to prisma.policyType.update:
\* status, error text, whether the record is written, the in-memory policyData
\* after the insertion and the position of the parent (empty at the root).
InsertOutcome(status, error, written, policyData, parent) ==
  [status |-> status, error |-> error, written |-> written,
   policyData |-> policyData, parent |-> parent]

\* Mutant of insertNode: the new node goes in front of its siblings.
insertNodeInFront(data, parentPath, newNode) ==
  LET entry == NewEntry(newNode)
      walk == addToParent(data, pathArray(parentPath.s), entry)
      kids == NodeAt(walk.nodes, walk.parent).child.a
      swapped == [NodeAt(walk.nodes, walk.parent) EXCEPT
                    !.child = Arr(<<entry>> \o SubSeq(kids, 1, Len(kids) - 1))]
  IN IF ~Truthy(newNode) \/ ~Truthy(Field(newNode, "current"))
     THEN InsertOutcome(400, "New node with 'current' field is required", FALSE, data, <<>>)
     ELSE IF ~Truthy(parentPath)
     THEN IF data.t # "array"
          THEN InsertOutcome(500, "Failed to add policy node", FALSE, data, <<>>)
          ELSE InsertOutcome(200, "", TRUE, Arr(<<entry>> \o data.a), <<>>)
     ELSE IF parentPath.t # "string" \/ walk.res = "throw"
     THEN InsertOutcome(500, "Failed to add policy node", FALSE, data, <<>>)
     ELSE IF walk.res = "notfound"
     THEN InsertOutcome(404, "Parent path not found", FALSE, data, <<>>)
     ELSE IF Len(walk.parent) = 1
     THEN InsertOutcome(200, "", TRUE,
                        Arr([walk.nodes EXCEPT ![walk.parent[1]] = swapped]), walk.parent)
     ELSE InsertOutcome(200, "", TRUE, Arr(walk.nodes), walk.parent)

\* Mutant of insertNode: the record is written although no parent was found.
insertNodeWrittenOnFailure(data, parentPath, newNode) ==
  LET entry == NewEntry(newNode)
      walk == addToParent(data, pathArray(parentPath.s), entry)
  IN IF ~Truthy(newNode) \/ ~Truthy(Field(newNode, "current"))
     THEN InsertOutcome(400, "New node with 'current' field is required", FALSE, data, <<>>)
     ELSE IF ~Truthy(parentPath)
     THEN IF data.t # "array"
          THEN InsertOutcome(500, "Failed to add policy node", FALSE, data, <<>>)
          ELSE InsertOutcome(200, "", TRUE, Arr(Append(data.a, entry)), <<>>)
     ELSE IF parentPath.t # "string" \/ walk.res = "throw"
     THEN InsertOutcome(500, "Failed to add policy node", FALSE, data, <<>>)
     ELSE IF walk.res = "notfound"
     THEN InsertOutcome(404, "Parent path not found", TRUE, Arr(Append(data.a, entry)), <<>>)
     ELSE InsertOutcome(200, "", TRUE, Arr(walk.nodes), walk.parent)

\* addPolicyNode between the record's read and its write: the request check, the
\* copy of policy.data (JSON.parse(JSON.stringify(v)) is v for a JSON value v),
\* the push at the root or addToParent, and the 404 when no parent was found.
insertNode(data, parentPath, newNode) ==
  LET entry == NewEntry(newNode)
      walk == addToParent(data, pathArray(parentPath.s), entry)
  IN IF ~Truthy(newNode) \/ ~Truthy(Field(newNode, "current"))
     THEN InsertOutcome(400, "New node with 'current' field is required", FALSE, data, <<>>)
     ELSE IF ~Truthy(parentPath)
     THEN IF data.t # "array"
          THEN InsertOutcome(500, "Failed to add policy node", FALSE, data, <<>>)
          ELSE InsertOutcome(200, "", TRUE, Arr(Append(data.a, entry)), <<>>)
     ELSE IF parentPath.t # "string" \/ walk.res = "throw"
     THEN InsertOutcome(500, "Failed to add policy node", FALSE, data, <<>>)
     ELSE IF walk.res = "notfound"
     THEN InsertOutcome(404, "Parent path not found", FALSE, data, <<>>)
     ELSE InsertOutcome(200, "", TRUE, Arr(walk.nodes), walk.parent)

\* ------------------------------------------------------------ JSON.stringify
Digit(n) ==
  CASE n = 0 -> "0" [] n = 1 -> "1" [] n = 2 -> "2" [] n = 3 -> "3" [] n = 4 -> "4"
    [] n = 5 -> "5" [] n = 6 -> "6" [] n = 7 -> "7" [] n = 8 -> "8" [] OTHER -> "9"

\* "key":
Key(name) == <<"\"">> \o name \o <<"\"", ":">>

\* JSON.stringify(v), character by character: an object's undefined properties
\* are left out, an undefined array element is written null. The labels of the
\* model hold no character that JSON escapes.
RECURSIVE stringify(_)
RECURSIVE stringifyItems(_)
stringifyItems(items) ==
  IF items = <<>> THEN <<>>
  ELSE LET first == IF Head(items).t = "undefined" THEN stringify(Null)
                    ELSE stringify(Head(items))
       IN IF Len(items) = 1 THEN first
          ELSE first \o <<",">> \o stringifyItems(Tail(items))

RECURSIVE stringifyFields(_, _)
stringifyFields(object, names) ==
  IF names = <<>> THEN <<>>
  ELSE LET rest == stringifyFields(object, Tail(names))
       IN IF object[Head(names).field].t = "undefined" THEN rest
          ELSE Key(Head(names).text) \o stringify(object[Head(names).field])
               \o (IF rest = <<>> THEN <<>> ELSE <<",">> \o rest)

NodeFields ==
  <<[field |-> "current", text |-> <<"c", "u", "r", "r", "e", "n", "t">>],
    [field |-> "child_exists", text |-> <<"c", "h", "i", "l", "d", "_", "e", "x", "i", "s", "t", "s">>],
    [field |-> "child", text |-> <<"c", "h", "i", "l", "d">>]>>

stringify(v) ==
  CASE v.t = "null" -> <<"n", "u", "l", "l">>
    [] v.t = "boolean" -> IF v.b THEN <<"t", "r", "u", "e">> ELSE <<"f", "a", "l", "s", "e">>
    [] v.t = "number" -> <<Digit(v.n)>>
    [] v.t = "string" -> <<"\"">> \o v.s \o <<"\"">>
    [] v.t = "array" -> <<"[">> \o stringifyItems(v.a) \o <<"]">>
    [] v.t = "object" -> <<"{">> \o stringifyFields(v, NodeFields) \o <<"}">>

\* ------------------------------------------------------------ the default forest
defaultPolicyStructure ==
  <<
    Node(Str(<<"m", "a", "r", "i", "n", "e">>), Bool(TRUE), Arr(<<
      Node(Str(<<"c", "o", "n", "t", "a", "i", "n", "e", "r">>), Bool(TRUE), Arr(<<
        Node(Str(<<"b", "o", "x", "_", "c", "o", "n", "t", "a", "i", "n", "e", "r">>), Bool(FALSE), Undef),
        Node(Str(<<"i", "s", "o", "_", "c", "o", "n", "t", "a", "i", "n", "e", "r">>), Bool(FALSE), Undef),
        Node(Str(<<"r", "e", "e", "f", "e", "r", "_", "c", "o", "n", "t", "a", "i", "n", "e", "r">>), Bool(FALSE), Undef)>>)),
      Node(Str(<<"i", "m", "p", "o", "r", "t">>), Bool(TRUE), Arr(<<
        Node(Str(<<"a", "i", "r">>), Bool(FALSE), Undef),
        Node(Str(<<"s", "e", "a">>), Bool(FALSE), Undef)>>)),
      Node(Str(<<"e", "x", "p", "o", "r", "t">>), Bool(TRUE), Arr(<<
        Node(Str(<<"a", "i", "r">>), Bool(FALSE), Undef),
        Node(Str(<<"s", "e", "a">>), Bool(FALSE), Undef)>>)),
      Node(Str(<<"d", "e", "m", "u", "r", "r", "a", "g", "e">>), Bool(FALSE), Undef),
      Node(Str(<<"i", "n", "l", "a", "n", "d">>), Bool(FALSE), Undef)>>)),
    Node(Str(<<"e", "n", "g", "i", "n", "e", "e", "r", "i", "n", "g">>), Bool(TRUE), Arr(<<
      Node(Str(<<"c", "o", "n", "t", "r", "a", "c", "t", "o", "r", "_", "a", "l", "l", "_", "r", "i", "s", "k", "_", "p", "o", "l", "i", "c", "y">>), Bool(FALSE), Undef),
      Node(Str(<<"e", "l", "e", "c", "t", "r", "o", "n", "i", "c", "_", "e", "q", "u", "i", "p", "m", "e", "n", "t", "_", "i", "n", "s", "u", "r", "a", "n", "c", "e">>), Bool(FALSE), Undef),
      Node(Str(<<"e", "r", "e", "c", "t", "o", "r", "s", "_", "a", "l", "l", "_", "r", "i", "s", "k">>), Bool(FALSE), Undef),
      Node(Str(<<"m", "a", "c", "h", "i", "n", "e", "_", "b", "r", "e", "a", "k", "d", "o", "w", "n">>), Bool(FALSE), Undef)>>)),
    Node(Str(<<"f", "i", "r", "e">>), Bool(FALSE), Undef),
    Node(Str(<<"m", "i", "s", "c", "e", "l", "l", "a", "n", "e", "o", "u", "s">>), Bool(FALSE), Undef),
    Node(Str(<<"v", "a", "l", "u", "e", "_", "a", "d", "d", "e", "d", "_", "s", "e", "r", "v", "i", "c", "e", "s">>), Bool(FALSE), Undef),
    Node(Str(<<"c", "l", "i", "e", "n", "t">>), Bool(FALSE), Undef)>>

\* ------------------------------------------------------------ the PolicyType table
NoRecord == [t |-> "none"]
NoResponse == [handler |-> "none"]
NoRequests == [handler |-> "none"]
NoAuth == [id |-> 0]

\* The tables and the middleware state a specification does not use.
AuxInit ==
  /\ claims = <<>>
  /\ requests = <<>>
  /\ clock = 0
  /\ auth = NoAuth

\* prisma.policyType.count()
RecordCount == Cardinality({id \in DOMAIN policyType : policyType[id] # NoRecord})

\* A response: the handler and the request it answered, the status, the error
\* text and the body fields the claims read.
Response(handler, id, request, status, error, body) ==
  [handler |-> handler, id |-> id, request |-> request, status |-> status,
   error |-> error, body |-> body]

\* Mutant of checkData: any array is taken.
checkDataArrayOnly(data) ==
  IF data.t # "array" THEN "not an array" ELSE "valid"

\* The checks createPolicy and updatePolicy make on the data of the request body
\* (an absent or null data is no array).
checkData(data) ==
  IF data.t # "array" THEN "not an array"
  ELSE IF ~isValidStructure(data.a) THEN "invalid structure"
  ELSE "valid"

\* An element of the policies array of bulkCreatePolicies.
PolicyBody(data) == [t |-> "object", data |-> data]

\* The validation loop of bulkCreatePolicies from policy i on: the first policy
\* that fails decides the response; reading data of null throws.
RECURSIVE bulkCheckFrom(_, _)
bulkCheckFrom(policies, i) ==
  IF i > Len(policies) THEN [status |-> 201, error |-> ""]
  ELSE IF policies[i].t \in {"null", "undefined"}
  THEN [status |-> 500, error |-> "Failed to bulk create policies"]
  ELSE IF ~Truthy(Field(policies[i], "data")) \/ Field(policies[i], "data").t # "array"
  THEN [status |-> 400,
        error |-> "Each policy must have data field as an array of policy nodes"]
  ELSE IF ~isValidStructure(policies[i].data.a)
  THEN [status |-> 400, error |-> "Invalid policy structure in one or more policies"]
  ELSE bulkCheckFrom(policies, i + 1)

bulkCheck(policies) ==
  IF policies.t # "array" \/ policies.a = <<>>
  THEN [status |-> 400, error |-> "Policies must be a non-empty array"]
  ELSE bulkCheckFrom(policies.a, 1)

\* ------------------------------------------------------------ input forests
\* Labels of the input forests: two that differ only in case, a plain one, one with
\* leading whitespace and one that contains the path delimiter.
Labels == {<<"a">>, <<"A">>, <<"b">>, <<" ", "b">>, <<"a", ">", "b">>}

\* A node without children as the validator accepts it: a leaf, or a node flagged
\* as having children whose children array is empty.
ValidTemplates ==
  {Node(Str(l), Bool(FALSE), Undef) : l \in Labels}
  \cup {Node(Str(l), Bool(TRUE), Arr(<<>>)) : l \in Labels}

\* Nodes with one defect each, and the well-formed nodes they are defects of.
RawTemplates ==
  {Node(Str(<<"a">>), Bool(FALSE), Undef),
   Node(Str(<<"a">>), Bool(TRUE), Arr(<<>>)),
   Node(Str(<<"a">>), Bool(FALSE), Str(<<"b">>)),
   Null,
   Str(<<"a">>),
   Arr(<<>>),
   Node(Undef, Bool(TRUE), Undef),
   Node(Undef, Bool(FALSE), Undef),
   Node(Str(<<>>), Bool(FALSE), Undef),
   Node(Num(5), Bool(FALSE), Undef),
   Node(Str(<<"a">>), Undef, Undef),
   Node(Str(<<"a">>), Num(1), Arr(<<>>)),
   Node(Str(<<"a">>), Bool(TRUE), Undef),
   Node(Str(<<"a">>), Bool(TRUE), Str(<<"b">>))}

\* The shape of a forest of k nodes numbered in pre-order: parent[i] is the number
\* of the parent of node i, 0 for a root.
RECURSIVE AncestorsOrSelf(_, _)
AncestorsOrSelf(parent, i) ==
  IF i = 0 THEN {0} ELSE {i} \cup AncestorsOrSelf(parent, parent[i])

Shapes(k) ==
  {parent \in [1..k -> 0..(k - 1)] :
     \A i \in 1..k : IF i = 1 THEN parent[i] = 0
                     ELSE parent[i] \in AncestorsOrSelf(parent, i - 1)}

RECURSIVE Ascending(_)
Ascending(S) ==
  IF S = {} THEN <<>>
  ELSE LET m == CHOOSE x \in S : \A y \in S : x <= y
       IN <<m>> \o Ascending(S \ {m})

\* The forest of shape parent whose node i is template[i], given the children the
\* shape gives it (a node the shape gives children keeps its label and flag, so
\* with the flag false they are children the validator does not look at).
RECURSIVE BuildChildren(_, _, _)
BuildNode(parent, template, i) ==
  LET kids == BuildChildren(parent, template, i)
  IN IF kids = <<>> THEN template[i] ELSE [template[i] EXCEPT !.child = Arr(kids)]

BuildChildren(parent, template, i) ==
  LET ids == Ascending({j \in DOMAIN parent : parent[j] = i})
  IN [n \in 1..Len(ids) |-> BuildNode(parent, template, ids[n])]

\* Only an object can be given children.
CanBuild(parent, template) ==
  \A j \in DOMAIN parent : parent[j] # 0 => template[parent[j]].t = "object"

\* ------------------------------------------------------------ SpecTree
\* The tree functions applied to one input forest.
TreeInit ==
  /\ \/ \E k \in 0..MaxNodes : \E parent \in Shapes(k) :
          \E template \in [1..k -> ValidTemplates] :
            forest = BuildChildren(parent, template, 0)
     \/ \E k \in 0..MaxRawNodes : \E parent \in Shapes(k) :
          \E template \in [1..k -> RawTemplates] :
            /\ CanBuild(parent, template)
            /\ forest = BuildChildren(parent, template, 0)
  /\ op = "input"
  /\ out = <<>>
  /\ policyType = [id \in 1..MaxPolicies |-> NoRecord]
  /\ nextId = 1
  /\ resp = NoResponse
  /\ inflight = NoRequests
  /\ AuxInit

\* data.every(validatePolicyNode), as createPolicy, updatePolicy and
\* bulkCreatePolicies run it on client data.
Validate ==
  /\ op = "input"
  /\ op' = "validate"
  /\ out' = isValidStructure(forest)
  /\ UNCHANGED <<forest, storeVars>>

\* The reads run on stored arrays, which went through the validator.
Flatten ==
  /\ op = "input"
  /\ isValidStructure(forest)
  /\ op' = "flatten"
  /\ out' = flattenPolicyStructure(forest)
  /\ UNCHANGED <<forest, storeVars>>

Leaves ==
  /\ op = "input"
  /\ isValidStructure(forest)
  /\ op' = "leaves"
  /\ out' = getLeafNodes(forest)
  /\ UNCHANGED <<forest, storeVars>>

CountLevels ==
  /\ op = "input"
  /\ isValidStructure(forest)
  /\ op' = "count"
  /\ out' = countNodesByLevel(forest, 1)
  /\ UNCHANGED <<forest, storeVars>>

\* A path no label of the input forests matches.
MissingPath == <<"n">>

\* A path of two segments, each the lower case of a label of the input forests.
TwoSegmentPath == <<"a", " ", ">", " ", "b">>

\* The paths asked of getPolicyNodeByPath: each path getPolicyStructure reports,
\* one of two segments and one that names no node.
QueryPaths(nodes) ==
  {flattenPolicyStructure(nodes)[i].path : i \in 1..Len(flattenPolicyStructure(nodes))}
  \cup {TwoSegmentPath, MissingPath}

\* getPolicyNodeByPath on a stored array: the query string, its segments and
\* what findNodeByPath returns.
NodeByPath ==
  /\ op = "input"
  /\ isValidStructure(forest)
  /\ \E path \in QueryPaths(forest) :
       /\ path # <<>>
       /\ out' = [path |-> path,
                  pathArray |-> pathArray(path),
                  foundNode |-> findNodeByPath(forest, pathArray(path)),
                  answer |-> nodeByPathAnswer(findNodeByPath(forest, pathArray(path)))]
  /\ op' = "node"
  /\ UNCHANGED <<forest, storeVars>>

\* The search terms: one in upper case, one in lower case, one with the delimiter.
SearchTerms == {<<"A">>, <<"b">>, <<">", "B">>}

\* searchInPolicyData on a stored array.
Search ==
  /\ op = "input"
  /\ isValidStructure(forest)
  /\ \E searchTerm \in SearchTerms :
       out' = [searchTerm |-> searchTerm,
               matches |-> searchInPolicyData(forest, searchTerm)]
  /\ op' = "search"
  /\ UNCHANGED <<forest, storeVars>>

\* The newNode of an addPolicyNode request: a bare label, a node that brings a
\* flagged child, a node that brings a child and no flag, a flagged node without
\* children, a number as label, and the two the request check turns down.
NewNodes ==
  {Node(Str(<<"d">>), Undef, Undef),
   Node(Str(<<"d">>), Bool(TRUE), Arr(<<Node(Str(<<"e">>), Bool(FALSE), Undef)>>)),
   Node(Str(<<"d">>), Undef, Arr(<<Node(Str(<<"e">>), Bool(FALSE), Undef)>>)),
   Node(Str(<<"d">>), Bool(TRUE), Undef),
   Node(Num(5), Undef, Undef),
   Node(Undef, Undef, Undef),
   Undef}

\* The parentPath of an addPolicyNode request: absent, empty, or one of the query
\* paths.
ParentPaths(nodes) == {Undef, Str(<<>>)} \cup {Str(path) : path \in QueryPaths(nodes)}

\* addPolicyNode on a stored array, up to the write.
Insert ==
  /\ op = "input"
  /\ isValidStructure(forest)
  /\ CountEveryNode(forest) <= MaxInsertNodes
  /\ \E parentPath \in ParentPaths(forest), newNode \in NewNodes :
       out' = [parentPath |-> parentPath, newNode |-> newNode,
               outcome |-> insertNode(Arr(forest), parentPath, newNode)]
  /\ op' = "insert"
  /\ UNCHANGED <<forest, storeVars>>

TreeNext ==
  Validate \/ Flatten \/ Leaves \/ CountLevels \/ NodeByPath \/ Search \/ Insert

SpecTree == TreeInit /\ [][TreeNext]_vars

\* The labels and the forest of the insertion example.
Marine == <<"m", "a", "r", "i", "n", "e">>
Container == <<"c", "o", "n", "t", "a", "i", "n", "e", "r">>
Demurrage == <<"d", "e", "m", "u", "r", "r", "a", "g", "e">>

MarineForest ==
  <<Node(Str(Marine), Bool(TRUE), Arr(<<Node(Str(Container), Bool(FALSE), Undef)>>))>>

\* ------------------------------------------------------------ Spec
\* The requests of the policy routes on the PolicyType table, one at a time.
Init ==
  /\ policyType = [id \in 1..MaxPolicies |-> NoRecord]
  /\ nextId = 1
  /\ resp = NoResponse
  /\ inflight = NoRequests
  /\ AuxInit
  /\ forest = <<>>
  /\ op = "idle"
  /\ out = <<>>

\* The forests of the request bodies: the marine forest, one whose node has a
\* child under a false flag; and two the validator turns down.
StrayForest ==
  <<Node(Str(<<"A">>), Bool(FALSE), Arr(<<Node(Str(<<"b">>), Bool(FALSE), Undef)>>))>>
NoLabelForest == <<Node(Undef, Bool(TRUE), Undef)>>
BadChildForest ==
  <<Node(Str(<<"a">>), Bool(FALSE), Undef),
    Node(Str(<<"b">>), Bool(TRUE), Arr(<<Node(Str(<<"c">>), Undef, Undef)>>))>>

ValidBodies == {Arr(MarineForest), Arr(StrayForest)}
InvalidBodies == {Arr(BadChildForest)}
DataBodies == ValidBodies \cup InvalidBodies \cup {Undef}

\* The policies of a bulkCreatePolicies body.
BulkBodies ==
  {Undef,
   Arr(<<PolicyBody(Arr(<<>>)), PolicyBody(Arr(MarineForest))>>),
   Arr(<<PolicyBody(Arr(MarineForest)), PolicyBody(Arr(BadChildForest))>>),
   Arr(<<Null, PolicyBody(Arr(NoLabelForest))>>)}

\* createPolicy
CreatePolicy ==
  \E data \in DataBodies :
    LET check == checkData(data)
    IN /\ check = "valid" => nextId <= MaxPolicies
       /\ policyType' = IF check = "valid" THEN [policyType EXCEPT ![nextId] = data]
                        ELSE policyType
       /\ nextId' = IF check = "valid" THEN nextId + 1 ELSE nextId
       /\ resp' = IF check = "valid"
                  THEN Response("createPolicy", nextId, <<data>>, 201, "", data)
                  ELSE IF check = "not an array"
                  THEN Response("createPolicy", 0, <<data>>, 400,
                         "Policy data is required and must be an array of policy nodes", Undef)
                  ELSE Response("createPolicy", 0, <<data>>, 400,
                         "Invalid policy structure. Each node must have 'current', 'child_exists', and 'child' (if child_exists is true) properties", Undef)
       /\ UNCHANGED <<treeVars, inflight, auxVars>>

\* updatePolicy: data absent keeps the record's data.
UpdatePolicy ==
  \E id \in 1..MaxPolicies, data \in DataBodies :
    LET check == checkData(data)
    IN /\ IF policyType[id] = NoRecord
          THEN /\ resp' = Response("updatePolicy", id, <<data>>, 404, "Policy not found", Undef)
               /\ UNCHANGED policyType
          ELSE IF data.t = "undefined"
          THEN /\ resp' = Response("updatePolicy", id, <<data>>, 200, "", policyType[id])
               /\ policyType' = [policyType EXCEPT ![id] = policyType[id]]
          ELSE IF check = "not an array"
          THEN /\ resp' = Response("updatePolicy", id, <<data>>, 400,
                            "Policy data must be an array of policy nodes", Undef)
               /\ UNCHANGED policyType
          ELSE IF check = "invalid structure"
          THEN /\ resp' = Response("updatePolicy", id, <<data>>, 400,
                            "Invalid policy structure", Undef)
               /\ UNCHANGED policyType
          ELSE /\ resp' = Response("updatePolicy", id, <<data>>, 200, "", data)
               /\ policyType' = [policyType EXCEPT ![id] = data]
       /\ UNCHANGED <<nextId, treeVars, inflight, auxVars>>

\* bulkCreatePolicies: the creates run in one transaction.
BulkCreatePolicies ==
  \E policies \in BulkBodies :
    LET check == bulkCheck(policies)
        count == IF check.status = 201 THEN Len(policies.a) ELSE 0
    IN /\ nextId + count - 1 <= MaxPolicies
       /\ policyType' = [id \in 1..MaxPolicies |->
                           IF id >= nextId /\ id < nextId + count
                           THEN policies.a[id - nextId + 1].data
                           ELSE policyType[id]]
       /\ nextId' = nextId + count
       /\ resp' = Response("bulkCreatePolicies", 0, <<policies>>, check.status, check.error,
                           count)
       /\ UNCHANGED <<treeVars, inflight, auxVars>>

\* initializeDefaultPolicies: the data it creates is JSON.stringify of the forest.
InitializeDefaultPolicies ==
  /\ IF RecordCount > 0
     THEN /\ resp' = Response("initializeDefaultPolicies", 0, <<>>, 400,
                       "Policies already exist. Use bulk create or individual create for new policies.",
                       Undef)
          /\ UNCHANGED <<policyType, nextId>>
     ELSE /\ nextId <= MaxPolicies
          /\ policyType' = [policyType EXCEPT
                              ![nextId] = Str(stringify(Arr(defaultPolicyStructure)))]
          /\ nextId' = nextId + 1
          /\ resp' = Response("initializeDefaultPolicies", nextId, <<>>, 201, "", Undef)
  /\ UNCHANGED <<treeVars, inflight, auxVars>>

\* The parentPath and newNode of the addPolicyNode requests.
AddParentPaths == {Undef, Str(Marine), Str(Marine \o <<">">> \o <<"n">>)}
AddNewNodes == {Node(Str(Demurrage), Undef, Undef), Undef}

\* addPolicyNode: the record is written with JSON.stringify(policyData).
AddPolicyNode ==
  \E id \in 1..MaxPolicies, parentPath \in AddParentPaths, newNode \in AddNewNodes :
    LET request == <<parentPath, newNode>>
        outcome == insertNode(policyType[id], parentPath, newNode)
    IN /\ IF ~Truthy(newNode) \/ ~Truthy(Field(newNode, "current"))
          THEN /\ resp' = Response("addPolicyNode", id, request, 400,
                            "New node with 'current' field is required", Undef)
               /\ UNCHANGED policyType
          ELSE IF policyType[id] = NoRecord
          THEN /\ resp' = Response("addPolicyNode", id, request, 404, "Policy not found", Undef)
               /\ UNCHANGED policyType
          ELSE /\ policyType' = IF outcome.written
                                THEN [policyType EXCEPT
                                        ![id] = Str(stringify(outcome.policyData))]
                                ELSE policyType
               /\ resp' = Response("addPolicyNode", id, request, outcome.status,
                            outcome.error,
                            IF outcome.written THEN policyType'[id] ELSE Undef)
       /\ UNCHANGED <<nextId, treeVars, inflight, auxVars>>

\* What getPolicyStructure answers for the record id.
getPolicyStructure(id) ==
  IF policyType[id] = NoRecord
  THEN Response("getPolicyStructure", id, <<>>, 404, "Policy not found", Undef)
  ELSE LET structure == flattenPolicyStructure(Items(policyType[id]))
       IN Response("getPolicyStructure", id, <<>>, 200, "",
                   [structure |-> structure, total_nodes |-> Len(structure)])

\* getPolicyStructure
GetPolicyStructure ==
  \E id \in 1..MaxPolicies :
    /\ resp' = getPolicyStructure(id)
    /\ UNCHANGED <<policyType, nextId, treeVars, inflight, auxVars>>

\* The path of the getPolicyNodeByPath requests.
NodePaths == {Undef, Str(Marine \o <<">">> \o Container), Str(<<"n">>)}

\* What getPolicyNodeByPath answers for the record id and the query path.
getPolicyNodeByPath(id, path) ==
  IF ~Truthy(path)
  THEN Response("getPolicyNodeByPath", id, <<path>>, 400,
                "Path parameter is required", Undef)
  ELSE IF policyType[id] = NoRecord
  THEN Response("getPolicyNodeByPath", id, <<path>>, 404, "Policy not found", Undef)
  ELSE LET foundNode == findNodeByPath(Items(policyType[id]), pathArray(path.s))
       IN IF foundNode.res = "throw"
          THEN Response("getPolicyNodeByPath", id, <<path>>, 500,
                        "Failed to fetch policy node", Undef)
          ELSE IF foundNode.res = "null"
          THEN Response("getPolicyNodeByPath", id, <<path>>, 404,
                        "Policy node not found at specified path", Undef)
          ELSE Response("getPolicyNodeByPath", id, <<path>>, 200, "",
                        [path |-> join([k \in 1..Len(pathArray(path.s)) |->
                                          Str(pathArray(path.s)[k])], PathSeparator),
                         node |-> NodeAt(Items(policyType[id]), foundNode.node)])

\* getPolicyNodeByPath
GetPolicyNodeByPath ==
  \E id \in 1..MaxPolicies, path \in NodePaths :
    /\ resp' = getPolicyNodeByPath(id, path)
    /\ UNCHANGED <<policyType, nextId, treeVars, inflight, auxVars>>

\* Mutant of getPolicyLeafNodes: the array of the leaves is shared by the
\* requests, the leaves of the answer before are still in it.
getPolicyLeafNodesShared(id) ==
  IF policyType[id] = NoRecord
  THEN Response("getPolicyLeafNodes", id, <<>>, 404, "Policy not found", Undef)
  ELSE LET earlier == IF resp.handler = "getPolicyLeafNodes" /\ resp.status = 200
                      THEN resp.body.leaf_nodes ELSE <<>>
           leafNodes == earlier \o getLeafNodes(Items(policyType[id]))
       IN Response("getPolicyLeafNodes", id, <<>>, 200, "",
                   [leaf_nodes |-> leafNodes, total_leaf_nodes |-> Len(leafNodes)])

\* What getPolicyLeafNodes answers for the record id.
getPolicyLeafNodes(id) ==
  IF policyType[id] = NoRecord
  THEN Response("getPolicyLeafNodes", id, <<>>, 404, "Policy not found", Undef)
  ELSE LET leafNodes == getLeafNodes(Items(policyType[id]))
       IN Response("getPolicyLeafNodes", id, <<>>, 200, "",
                   [leaf_nodes |-> leafNodes, total_leaf_nodes |-> Len(leafNodes)])

\* getPolicyLeafNodes
GetPolicyLeafNodes ==
  \E id \in 1..MaxPolicies :
    /\ resp' = getPolicyLeafNodes(id)
    /\ UNCHANGED <<policyType, nextId, treeVars, inflight, auxVars>>

Next ==
  \/ CreatePolicy
  \/ UpdatePolicy
  \/ BulkCreatePolicies
  \/ InitializeDefaultPolicies
  \/ AddPolicyNode
  \/ GetPolicyStructure
  \/ GetPolicyNodeByPath
  \/ GetPolicyLeafNodes

Spec == Init /\ [][Next]_vars

\* ------------------------------------------------------------ SpecRace
\* Two addPolicyNode requests on record 1, each in two steps: up to the answer of
\* findUnique, and from there to the answer of update.  Nothing locks the record
\* between the two.
Requests == {1, 2}
Other(r) == 3 - r

\* The label each request inserts.
Storage == <<"s", "t", "o", "r", "a", "g", "e">>
RaceLabel(r) == IF r = 1 THEN Demurrage ELSE Storage

\* The forests record 1 holds at the start.
RaceForests == {Arr(<<>>), Arr(MarineForest), Arr(StrayForest)}

\* The parentPath of the requests.
RaceParentPaths == {Undef, Str(Marine), Str(<<"a">>)}

RaceInit ==
  /\ \E data \in RaceForests :
       policyType = [id \in 1..MaxPolicies |-> IF id = 1 THEN data ELSE NoRecord]
  /\ \E parentPath \in [Requests -> RaceParentPaths] :
       inflight = [handler |-> "addPolicyNode",
                   request |-> [r \in Requests |->
                                  [parentPath |-> parentPath[r],
                                   newNode |-> Node(Str(RaceLabel(r)), Undef, Undef)]],
                   pc |-> [r \in Requests |-> "start"],
                   policy |-> [r \in Requests |-> NoRecord],
                   policyData |-> [r \in Requests |-> Undef],
                   status |-> [r \in Requests |-> 0],
                   log |-> <<>>]
  /\ nextId = 2
  /\ resp = NoResponse
  /\ AuxInit
  /\ forest = <<>>
  /\ op = "idle"
  /\ out = <<>>

\* The request check and findUnique: the request holds what the record held when
\* it was read.
RaceFind(r) ==
  /\ inflight.handler = "addPolicyNode"
  /\ inflight.pc[r] = "start"
  /\ LET newNode == inflight.request[r].newNode
     IN IF ~Truthy(newNode) \/ ~Truthy(Field(newNode, "current"))
        THEN inflight' = [inflight EXCEPT !.pc[r] = "done", !.status[r] = 400]
        ELSE IF policyType[1] = NoRecord
        THEN inflight' = [inflight EXCEPT !.pc[r] = "done", !.status[r] = 404]
        ELSE inflight' = [inflight EXCEPT !.pc[r] = "found",
                                          !.policy[r] = policyType[1],
                                          !.log = Append(@, <<"find", r>>)]
  /\ UNCHANGED <<treeVars, policyType, nextId, resp, auxVars>>

\* Mutant of persisted: a record that was written since it was created is kept.
persistedUnlessWritten(current, policyData) ==
  IF current.t = "string" THEN current ELSE Str(stringify(policyData))

\* What prisma.policyType.update leaves in the record whose data is current.
persisted(current, policyData) == Str(stringify(policyData))

\* The copy, the insertion into the copy and update: the whole data of the record
\* is written.
RaceUpdate(r) ==
  /\ inflight.handler = "addPolicyNode"
  /\ inflight.pc[r] = "found"
  /\ LET outcome == insertNode(inflight.policy[r], inflight.request[r].parentPath,
                               inflight.request[r].newNode)
     IN IF outcome.written
        THEN /\ policyType' = [policyType EXCEPT
                                 ![1] = persisted(policyType[1], outcome.policyData)]
             /\ inflight' = [inflight EXCEPT !.pc[r] = "done",
                                             !.status[r] = outcome.status,
                                             !.policyData[r] = outcome.policyData,
                                             !.log = Append(@, <<"update", r>>)]
        ELSE /\ inflight' = [inflight EXCEPT !.pc[r] = "done",
                                             !.status[r] = outcome.status]
             /\ UNCHANGED policyType
  /\ UNCHANGED <<treeVars, nextId, resp, auxVars>>

RaceNext == \E r \in Requests : RaceFind(r) \/ RaceUpdate(r)

SpecRace == RaceInit /\ [][RaceNext]_vars

\* ------------------------------------------------------------ SpecReads
\* The five read requests of the policy routes, one after the other, on a table
\* the write requests have left.
MaxClaims == 2

\* prisma.policyType.findMany(): the ids of the records, in stored order.
findMany ==
  LET stored == {id \in DOMAIN policyType : policyType[id] # NoRecord}
  IN [k \in 1..Cardinality(stored) |->
        CHOOSE id \in stored : Cardinality({j \in stored : j < id}) = k - 1]

\* policy._count.claims
claimCount(id) == Cardinality({k \in 1..Len(claims) : claims[k] = id})

\* parseFloat(percentage.toFixed(2)), in hundredths: the quotient is rounded to
\* the nearest hundredth.
percentage(count, totalClaims) ==
  IF totalClaims > 0 THEN (count * 20000 + totalClaims) \div (2 * totalClaims) ELSE 0

\* analytics.sort((a, b) => b.claimCount - a.claimCount): stable, greatest first.
RECURSIVE sortByClaimCount(_)
sortByClaimCount(analytics) ==
  IF Len(analytics) <= 1 THEN analytics
  ELSE LET first == Head(analytics)
           rest == sortByClaimCount(Tail(analytics))
           k == Cardinality({i \in 1..Len(rest) : rest[i].claimCount > first.claimCount})
       IN SubSeq(rest, 1, k) \o <<first>> \o SubSeq(rest, k + 1, Len(rest))

\* What getPolicyAnalytics answers.
getPolicyAnalytics ==
  LET policiesWithClaimCount == findMany
      totalClaims == Len(claims)
      entry(id) ==
        LET levelCounts == countNodesByLevel(Items(policyType[id]), 1)
        IN [id |-> id,
            data |-> policyType[id],
            claimCount |-> claimCount(id),
            percentage |-> percentage(claimCount(id), totalClaims),
            nodeAnalytics |-> [totalNodes |-> totalNodes(levelCounts),
                               nodesByLevel |-> levelCounts,
                               maxDepth |-> maxDepth(levelCounts)]]
      analytics == [k \in 1..Len(policiesWithClaimCount) |->
                      entry(policiesWithClaimCount[k])]
  IN Response("getPolicyAnalytics", 0, <<>>, 200, "",
              [totalPolicies |-> Len(policiesWithClaimCount),
               totalClaims |-> totalClaims,
               policyAnalytics |-> sortByClaimCount(analytics)])

\* parseInt of a query parameter: the digits up to the first other character,
\* NaN (here Undef) when there are none or the parameter is absent.
Digits == <<"0", "1", "2", "3", "4", "5", "6", "7", "8", "9">>
IsDigit(c) == \E d \in 1..Len(Digits) : Digits[d] = c
DigitValue(c) == (CHOOSE d \in 1..Len(Digits) : Digits[d] = c) - 1
RECURSIVE parseDigits(_, _)
parseDigits(s, value) ==
  IF s = <<>> \/ ~IsDigit(Head(s)) THEN value
  ELSE parseDigits(Tail(s), value * 10 + DigitValue(Head(s)))
parseInt(v) ==
  IF v.t # "string" THEN Undef
  ELSE LET s == trim(v.s)
           negative == s # <<>> /\ Head(s) = "-"
           digits == IF negative THEN Tail(s) ELSE s
       IN IF digits = <<>> \/ ~IsDigit(Head(digits)) THEN Undef
          ELSE Num(IF negative THEN 0 - parseDigits(digits, 0) ELSE parseDigits(digits, 0))

\* Array.prototype.slice(start, end)
slice(array, start, end) ==
  LET len == Len(array)
      clamp(k) == IF k < 0 THEN (IF len + k < 0 THEN 0 ELSE len + k)
                  ELSE IF k > len THEN len ELSE k
  IN SubSeq(array, clamp(start) + 1, clamp(end))

\* Math.ceil(total / limit), for a positive limit
ceil(total, limit) == (total + limit - 1) \div limit

\* The page of the matching records and the pagination block of the answer.
paginate(allPolicies, matchingPolicies, page, limit) ==
  [data |-> slice(matchingPolicies, (page - 1) * limit, (page - 1) * limit + limit),
   pagination |-> [total |-> Len(matchingPolicies), page |-> page,
                   pages |-> ceil(Len(matchingPolicies), limit)]]

\* allPolicies.filter(...): the ids of seq whose record the term matches.
RECURSIVE filterMatching(_, _)
filterMatching(ids, query) ==
  IF ids = <<>> THEN <<>>
  ELSE (IF searchInPolicyData(policyType[Head(ids)].a, query)
        THEN <<Head(ids)>> ELSE <<>>) \o filterMatching(Tail(ids), query)

\* What searchPolicies answers for the query parameters query, page and limit.
\* nodes.some is not a function when the data of a record is a string.
searchPolicies(query, pageParam, limitParam) ==
  LET request == <<query, pageParam, limitParam>>
      page == IF Truthy(parseInt(pageParam)) THEN parseInt(pageParam).n ELSE 1
      limit == IF Truthy(parseInt(limitParam)) THEN parseInt(limitParam).n ELSE 10
      allPolicies == findMany
      records(ids) == [k \in 1..Len(ids) |-> [id |-> ids[k], data |-> policyType[ids[k]]]]
  IN IF ~Truthy(query)
     THEN Response("searchPolicies", 0, request, 400, "Search query is required", Undef)
     ELSE IF \E k \in 1..Len(allPolicies) : policyType[allPolicies[k]].t # "array"
     THEN Response("searchPolicies", 0, request, 500, "Failed to search policies", Undef)
     ELSE Response("searchPolicies", 0, request, 200, "",
                   paginate(records(allPolicies),
                            records(filterMatching(allPolicies, query.s)), page, limit))

\* The data of the records of the table: none, the arrays createPolicy stored,
\* and the string addPolicyNode stored.
ReadRecords ==
  {NoRecord, Arr(MarineForest), Arr(StrayForest), Str(stringify(Arr(MarineForest)))}

\* The query parameters query, page and limit of the searchPolicies requests.
SearchRequests ==
  {<<Undef, Undef, Undef>>,
   <<Str(<<"a">>), Undef, Undef>>,
   <<Str(<<"a">>), Str(<<"0">>), Str(<<"1">>)>>,
   <<Str(<<"a">>), Str(<<"2">>), Str(<<"1">>)>>,
   <<Str(<<"a">>), Str(<<"3">>), Str(<<"1">>)>>,
   <<Str(<<"a">>), Str(<<"2">>), Str(<<"2">>)>>,
   <<Str(Marine), Undef, Str(<<"2">>)>>,
   <<Str(Marine), Str(<<"2">>), Str(<<"1">>)>>}

\* The claim tables: every claim points at a record of the table; the claims of
\* the records with the smaller ids were created first.
ClaimTables(table) ==
  {c \in UNION {[1..n -> {id \in DOMAIN table : table[id] # NoRecord}] : n \in 0..MaxClaims} :
     \A k \in 1..(Len(c) - 1) : c[k] <= c[k + 1]}

ReadsInit ==
  /\ policyType \in [1..MaxPolicies -> ReadRecords]
  /\ claims \in ClaimTables(policyType)
  /\ nextId = MaxPolicies + 1
  /\ resp = NoResponse
  /\ inflight = [handler |-> "reads", repeated |-> FALSE]
  /\ requests = <<>>
  /\ clock = 0
  /\ auth = NoAuth
  /\ forest = <<>>
  /\ op = "idle"
  /\ out = <<>>

\* The same handler, record and parameters as in the request answered last.
SameRequest(a, b) == a.handler = b.handler /\ a.id = b.id /\ a.request = b.request

\* A read request is answered with resp'; the request before it may have been
\* the same.
Served ==
  /\ inflight.handler = "reads"
  /\ inflight' = [inflight EXCEPT !.repeated = SameRequest(resp', resp)]
  /\ UNCHANGED <<treeVars, policyType, nextId, auxVars>>

ReadStructure ==
  \E id \in 1..MaxPolicies :
    /\ resp' = getPolicyStructure(id)
    /\ Served

ReadNodeByPath ==
  \E id \in 1..MaxPolicies, path \in NodePaths :
    /\ resp' = getPolicyNodeByPath(id, path)
    /\ Served

ReadLeafNodes ==
  \E id \in 1..MaxPolicies :
    /\ resp' = getPolicyLeafNodes(id)
    /\ Served

ReadAnalytics ==
  /\ resp' = getPolicyAnalytics
  /\ Served

ReadSearch ==
  \E request \in SearchRequests :
    /\ resp' = searchPolicies(request[1], request[2], request[3])
    /\ Served

ReadsNext ==
  \/ ReadStructure
  \/ ReadNodeByPath
  \/ ReadLeafNodes
  \/ ReadAnalytics
  \/ ReadSearch

SpecReads == ReadsInit /\ [][ReadsNext]_vars

\* ------------------------------------------------------------ SpecInit
\* initializeDefaultPolicies, createPolicy and bulkCreatePolicies requests under
\* way at the same time.  initializeDefaultPolicies takes two steps, up to the
\* answer of count and from there to the answer of create; the other two have a
\* single await, the create or the transaction of creates.
MaxRequests == 3
InitRequests == 1..MaxRequests
InitHandlers == {"initializeDefaultPolicies", "createPolicy", "bulkCreatePolicies"}

\* The record initializeDefaultPolicies creates.
DefaultRecord == Str(stringify(Arr(defaultPolicyStructure)))

\* The bodies of the createPolicy and bulkCreatePolicies requests.
InitCreateBody == Arr(StrayForest)
InitBulkBody == Arr(<<PolicyBody(Arr(MarineForest))>>)

InitInit ==
  /\ \E data \in {NoRecord, Arr(MarineForest)} :
       /\ policyType = [id \in 1..MaxPolicies |-> IF id = 1 THEN data ELSE NoRecord]
       /\ nextId = IF data = NoRecord THEN 1 ELSE 2
  /\ \E handler \in [InitRequests -> InitHandlers] :
       inflight = [handler |-> "initializeDefaultPolicies",
                   request |-> handler,
                   pc |-> [r \in InitRequests |-> "start"],
                   existingPolicies |-> [r \in InitRequests |-> 0],
                   status |-> [r \in InitRequests |-> 0]]
  /\ resp = NoResponse
  /\ AuxInit
  /\ forest = <<>>
  /\ op = "idle"
  /\ out = <<>>

\* prisma.policyType.count() and the check of its answer.
InitCount(r) ==
  /\ inflight.handler = "initializeDefaultPolicies"
  /\ inflight.request[r] = "initializeDefaultPolicies"
  /\ inflight.pc[r] = "start"
  /\ inflight' = IF RecordCount > 0
                 THEN [inflight EXCEPT !.pc[r] = "done", !.status[r] = 400,
                                       !.existingPolicies[r] = RecordCount]
                 ELSE [inflight EXCEPT !.pc[r] = "counted",
                                       !.existingPolicies[r] = RecordCount]
  /\ UNCHANGED <<treeVars, policyType, nextId, resp, auxVars>>

\* prisma.policyType.create of the default record.
InitCreate(r) ==
  /\ inflight.handler = "initializeDefaultPolicies"
  /\ inflight.pc[r] = "counted"
  /\ nextId <= MaxPolicies
  /\ policyType' = [policyType EXCEPT ![nextId] = DefaultRecord]
  /\ nextId' = nextId + 1
  /\ inflight' = [inflight EXCEPT !.pc[r] = "done", !.status[r] = 201]
  /\ UNCHANGED <<treeVars, resp, auxVars>>

\* createPolicy, whole.
InitCreatePolicy(r) ==
  /\ inflight.handler = "initializeDefaultPolicies"
  /\ inflight.request[r] = "createPolicy"
  /\ inflight.pc[r] = "start"
  /\ checkData(InitCreateBody) = "valid"
  /\ nextId <= MaxPolicies
  /\ policyType' = [policyType EXCEPT ![nextId] = InitCreateBody]
  /\ nextId' = nextId + 1
  /\ inflight' = [inflight EXCEPT !.pc[r] = "done", !.status[r] = 201]
  /\ UNCHANGED <<treeVars, resp, auxVars>>

\* bulkCreatePolicies, whole.
InitBulkCreate(r) ==
  /\ inflight.handler = "initializeDefaultPolicies"
  /\ inflight.request[r] = "bulkCreatePolicies"
  /\ inflight.pc[r] = "start"
  /\ bulkCheck(InitBulkBody).status = 201
  /\ nextId + Len(InitBulkBody.a) - 1 <= MaxPolicies
  /\ policyType' = [id \in 1..MaxPolicies |->
                      IF id >= nextId /\ id < nextId + Len(InitBulkBody.a)
                      THEN InitBulkBody.a[id - nextId + 1].data
                      ELSE policyType[id]]
  /\ nextId' = nextId + Len(InitBulkBody.a)
  /\ inflight' = [inflight EXCEPT !.pc[r] = "done", !.status[r] = 201]
  /\ UNCHANGED <<treeVars, resp, auxVars>>

InitNext ==
  \E r \in InitRequests :
    \/ InitCount(r)
    \/ InitCreate(r)
    \/ InitCreatePolicy(r)
    \/ InitBulkCreate(r)

SpecInit == InitInit /\ [][InitNext]_vars

\* ------------------------------------------------------------ SpecClaims
\* createClaim and deletePolicy requests under way at the same time, each split
\* where it awaits the answer of its lookup before it writes.  The schema of the
\* database is not among the sources: the two writes are those of the
\* persistence layer the specification describes, create and delete by id.
ClaimRequests == 1..MaxRequests
ClaimHandlers == {"createClaim", "deletePolicy"}

\* prisma.claim.create: the claim is added to the Claim table.
claimCreate(table, policy_id) == Append(table, policy_id)

\* prisma.policyType.delete: the record leaves the PolicyType table.
policyTypeDelete(table, id) == [table EXCEPT ![id] = NoRecord]

\* policy.claims.length > 0
hasClaims(table, id) == \E k \in 1..Len(table) : table[k] = id

ClaimsInit ==
  /\ policyType = [id \in 1..MaxPolicies |-> Arr(MarineForest)]
  /\ nextId = MaxPolicies + 1
  /\ claims \in {<<>>, <<1>>}
  /\ \E handler \in [ClaimRequests -> ClaimHandlers], id \in [ClaimRequests -> 1..MaxPolicies] :
       inflight = [handler |-> "createClaim",
                   request |-> [r \in ClaimRequests |-> [handler |-> handler[r], id |-> id[r]]],
                   pc |-> [r \in ClaimRequests |-> "start"],
                   status |-> [r \in ClaimRequests |-> 0]]
  /\ resp = NoResponse
  /\ requests = <<>>
  /\ clock = 0
  /\ auth = NoAuth
  /\ forest = <<>>
  /\ op = "idle"
  /\ out = <<>>

\* createClaim up to the answer of prisma.policyType.findUnique; the customer and
\* the employee of the request exist.
ClaimFind(r) ==
  /\ inflight.handler = "createClaim"
  /\ inflight.request[r].handler = "createClaim"
  /\ inflight.pc[r] = "start"
  /\ inflight' = IF policyType[inflight.request[r].id] = NoRecord
                 THEN [inflight EXCEPT !.pc[r] = "done", !.status[r] = 404]
                 ELSE [inflight EXCEPT !.pc[r] = "found"]
  /\ UNCHANGED <<treeVars, policyType, nextId, resp, auxVars>>

\* createClaim from there to the answer of prisma.claim.create.
ClaimCreate(r) ==
  /\ inflight.handler = "createClaim"
  /\ inflight.request[r].handler = "createClaim"
  /\ inflight.pc[r] = "found"
  /\ claims' = claimCreate(claims, inflight.request[r].id)
  /\ inflight' = [inflight EXCEPT !.pc[r] = "done", !.status[r] = 201]
  /\ UNCHANGED <<treeVars, policyType, nextId, resp, requests, clock, auth>>

\* deletePolicy up to the answer of findUnique with the claims of the record, and
\* the check of the claims.
DeleteFind(r) ==
  /\ inflight.handler = "createClaim"
  /\ inflight.request[r].handler = "deletePolicy"
  /\ inflight.pc[r] = "start"
  /\ inflight' = IF policyType[inflight.request[r].id] = NoRecord
                 THEN [inflight EXCEPT !.pc[r] = "done", !.status[r] = 404]
                 ELSE IF hasClaims(claims, inflight.request[r].id)
                 THEN [inflight EXCEPT !.pc[r] = "done", !.status[r] = 400]
                 ELSE [inflight EXCEPT !.pc[r] = "found"]
  /\ UNCHANGED <<treeVars, policyType, nextId, resp, auxVars>>

\* deletePolicy from there to the answer of prisma.policyType.delete, which
\* throws when the record is gone.
DeleteDelete(r) ==
  /\ inflight.handler = "createClaim"
  /\ inflight.request[r].handler = "deletePolicy"
  /\ inflight.pc[r] = "found"
  /\ IF policyType[inflight.request[r].id] = NoRecord
     THEN /\ inflight' = [inflight EXCEPT !.pc[r] = "done", !.status[r] = 500]
          /\ UNCHANGED policyType
     ELSE /\ policyType' = policyTypeDelete(policyType, inflight.request[r].id)
          /\ inflight' = [inflight EXCEPT !.pc[r] = "done", !.status[r] = 200]
  /\ UNCHANGED <<treeVars, nextId, resp, auxVars>>

ClaimsNext ==
  \E r \in ClaimRequests :
    \/ ClaimFind(r)
    \/ ClaimCreate(r)
    \/ DeleteFind(r)
    \/ DeleteDelete(r)

SpecClaims == ClaimsInit /\ [][ClaimsNext]_vars

\* ------------------------------------------------------------ SpecLimit
\* The middleware rateLimit(windowMs, max) returns, serving the requests of two
\* clients while the clock goes on.
MaxTime == 3
MaxWindow == 2
MaxLimit == 2
Ips == {"10.0.0.1", "10.0.0.2"}

\* (time) => time > now - windowMs
stillInWindow(time, now, windowMs) == time > now - windowMs

\* requests.get(ip).filter(...)
RECURSIVE filterWindow(_, _, _)
filterWindow(times, now, windowMs) ==
  IF times = <<>> THEN <<>>
  ELSE (IF stillInWindow(Head(times), now, windowMs) THEN <<Head(times)>> ELSE <<>>)
       \o filterWindow(Tail(times), now, windowMs)

\* requests.set(ip, times)
mapSet(map, ip, times) ==
  [i \in (DOMAIN map) \cup {ip} |-> IF i = ip THEN times ELSE map[i]]

LimitInit ==
  /\ \E windowMs \in 1..MaxWindow, max \in 0..MaxLimit :
       inflight = [handler |-> "rateLimit", windowMs |-> windowMs, max |-> max,
                   next |-> [ip \in Ips |-> <<>>]]
  /\ requests = <<>>
  /\ clock = 0
  /\ resp = NoResponse
  /\ policyType = [id \in 1..MaxPolicies |-> NoRecord]
  /\ nextId = 1
  /\ claims = <<>>
  /\ auth = NoAuth
  /\ forest = <<>>
  /\ op = "idle"
  /\ out = <<>>

\* Time passes.
Tick ==
  /\ inflight.handler = "rateLimit"
  /\ clock < MaxTime
  /\ clock' = clock + 1
  /\ UNCHANGED <<treeVars, policyType, nextId, resp, inflight, claims, requests, auth>>

\* The middleware serves a request of the client ip; inflight.next holds the
\* times at which it called next() for the client.
RateLimit(ip) ==
  /\ inflight.handler = "rateLimit"
  /\ LET now == clock
         userRequests == filterWindow(requests[ip], now, inflight.windowMs)
     IN IF ip \in DOMAIN requests
        THEN IF Len(userRequests) >= inflight.max
             THEN /\ requests' = mapSet(requests, ip, userRequests)
                  /\ resp' = Response("rateLimit", ip, <<now>>, 429,
                                      "Too many requests, please try again later.", Undef)
                  /\ UNCHANGED inflight
             ELSE /\ requests' = mapSet(requests, ip, Append(userRequests, now))
                  /\ resp' = Response("rateLimit", ip, <<now>>, 200, "", Undef)
                  /\ inflight' = [inflight EXCEPT !.next[ip] = Append(@, now)]
        ELSE /\ requests' = mapSet(requests, ip, <<now>>)
             /\ resp' = Response("rateLimit", ip, <<now>>, 200, "", Undef)
             /\ inflight' = [inflight EXCEPT !.next[ip] = Append(@, now)]
  /\ UNCHANGED <<treeVars, policyType, nextId, claims, clock, auth>>

LimitNext ==
  \/ Tick
  \/ \E ip \in Ips : RateLimit(ip)

SpecLimit == LimitInit /\ [][LimitNext]_vars

\* ------------------------------------------------------------ SpecReset
\* forgotPassword and resetPassword requests for one user under way at the same
\* time, each split where it awaits the answer of its lookup before it writes.
\* A token is the number of the forgotPassword answer that made it (bcrypt.genSalt
\* is taken to return a new value every time); a hash is the password and the
\* number of the salt it was hashed with.
MaxTicks == 2
ResetTokenLifetime == 3600000
ResetRequests == 1..MaxRequests

\* The bodies of the requests: forgotPassword with the email of the user or an
\* email nobody has, resetPassword with one of the first two tokens.
ResetBodies ==
  {[handler |-> "forgotPassword", email |-> Str(<<"u">>)],
   [handler |-> "forgotPassword", email |-> Str(<<"x">>)],
   [handler |-> "resetPassword", token |-> Num(1), newPassword |-> Str(<<"p">>)],
   [handler |-> "resetPassword", token |-> Num(2), newPassword |-> Str(<<"p">>)]}

ResetInit ==
  /\ auth = [id |-> 1,
             email |-> Str(<<"u">>),
             salt |-> 0,
             current_hash |-> [password |-> Str(<<"o">>), salt |-> 0],
             metadata |-> [resetToken |-> Undef, resetTokenExpiry |-> Undef,
                           passwordChangedAt |-> Undef]]
  /\ nextId = 1
  /\ clock = 0
  /\ \E body \in [ResetRequests -> ResetBodies] :
       inflight = [handler |-> "resetPassword",
                   request |-> body,
                   pc |-> [r \in ResetRequests |-> "start"],
                   authMetadata |-> [r \in ResetRequests |-> Undef],
                   status |-> [r \in ResetRequests |-> 0]]
  /\ resp = NoResponse
  /\ policyType = [id \in 1..MaxPolicies |-> NoRecord]
  /\ claims = <<>>
  /\ requests = <<>>
  /\ forest = <<>>
  /\ op = "idle"
  /\ out = <<>>

\* Half of the lifetime of a token passes.
ResetTick ==
  /\ inflight.handler = "resetPassword"
  /\ clock < MaxTicks * (ResetTokenLifetime \div 2)
  /\ clock' = clock + ResetTokenLifetime \div 2
  /\ UNCHANGED <<treeVars, policyType, nextId, resp, inflight, claims, requests, auth>>

\* forgotPassword up to the answer of prisma.userProfile.findFirst.
ForgotFind(r) ==
  /\ inflight.handler = "resetPassword"
  /\ inflight.request[r].handler = "forgotPassword"
  /\ inflight.pc[r] = "start"
  /\ inflight' = IF ~Truthy(inflight.request[r].email)
                 THEN [inflight EXCEPT !.pc[r] = "done", !.status[r] = 400]
                 ELSE IF inflight.request[r].email # auth.email
                 THEN [inflight EXCEPT !.pc[r] = "done", !.status[r] = 200]
                 ELSE [inflight EXCEPT !.pc[r] = "found", !.authMetadata[r] = auth.metadata]
  /\ UNCHANGED <<treeVars, policyType, nextId, resp, auxVars>>

\* forgotPassword from there to the answer of prisma.auth.update: the token and
\* its expiry are written with the metadata the lookup returned.
ForgotUpdate(r) ==
  /\ inflight.handler = "resetPassword"
  /\ inflight.request[r].handler = "forgotPassword"
  /\ inflight.pc[r] = "found"
  /\ auth' = [auth EXCEPT !.metadata =
                [inflight.authMetadata[r] EXCEPT
                   !.resetToken = Num(nextId),
                   !.resetTokenExpiry = Num(clock + ResetTokenLifetime)]]
  /\ nextId' = nextId + 1
  /\ inflight' = [inflight EXCEPT !.pc[r] = "done", !.status[r] = 200]
  /\ UNCHANGED <<treeVars, policyType, resp, claims, requests, clock>>

\* resetTokenExpiry < new Date()
tokenExpired(authMetadata, now) ==
  /\ authMetadata.resetTokenExpiry.t = "number"
  /\ authMetadata.resetTokenExpiry.n < now

\* resetPassword up to the answer of prisma.auth.findFirst and the check of the
\* expiry.
ResetFind(r) ==
  /\ inflight.handler = "resetPassword"
  /\ inflight.request[r].handler = "resetPassword"
  /\ inflight.pc[r] = "start"
  /\ inflight' =
       IF ~Truthy(inflight.request[r].token) \/ ~Truthy(inflight.request[r].newPassword)
       THEN [inflight EXCEPT !.pc[r] = "done", !.status[r] = 400]
       ELSE IF auth.metadata.resetToken # inflight.request[r].token
       THEN [inflight EXCEPT !.pc[r] = "done", !.status[r] = 400]
       ELSE IF tokenExpired(auth.metadata, clock)
       THEN [inflight EXCEPT !.pc[r] = "done", !.status[r] = 400]
       ELSE [inflight EXCEPT !.pc[r] = "found", !.authMetadata[r] = auth.metadata]
  /\ UNCHANGED <<treeVars, policyType, nextId, resp, auxVars>>

\* resetPassword from there to the answer of prisma.auth.update: the new salt
\* and hash are written and the token is taken out of the metadata the lookup
\* returned.
ResetUpdate(r) ==
  /\ inflight.handler = "resetPassword"
  /\ inflight.request[r].handler = "resetPassword"
  /\ inflight.pc[r] = "found"
  /\ auth' = [auth EXCEPT
                !.salt = nextId,
                !.current_hash = [password |-> inflight.request[r].newPassword,
                                  salt |-> nextId],
                !.metadata = [inflight.authMetadata[r] EXCEPT
                                !.resetToken = Null,
                                !.resetTokenExpiry = Null,
                                !.passwordChangedAt = Num(clock)]]
  /\ nextId' = nextId + 1
  /\ inflight' = [inflight EXCEPT !.pc[r] = "done", !.status[r] = 200]
  /\ UNCHANGED <<treeVars, policyType, resp, claims, requests, clock>>

ResetNext ==
  \/ ResetTick
  \/ \E r \in ResetRequests :
       \/ ForgotFind(r)
       \/ ForgotUpdate(r)
       \/ ResetFind(r)
       \/ ResetUpdate(r)

SpecReset == ResetInit /\ [][ResetNext]_vars

\* ------------------------------------------------------------ claims on the tree functions

\* The entries of flatten that report the path p.
EntriesWithPath(nodes, p) ==
  {i \in 1..Len(flattenPolicyStructure(nodes)) : flattenPolicyStructure(nodes)[i].path = p}

\* C1 as stated: path round-trip. For every entry e of flatten, resolving e.path
\* (split on '>', trimmed, lowercased) with findNodeByPath returns the node that
\* produced e.
C1_RoundTripEveryForest ==
  op = "node" =>
    \A i \in EntriesWithPath(forest, out.path) :
      out.foundNode = Found(flattenPolicyStructure(forest)[i].node)

\* A label that survives the path syntax: no delimiter in it, nothing to trim.
CleanLabel(l) == trim(l) = l /\ \A k \in 1..Len(l) : l[k] # ">"

\* The siblings flatten visits have pairwise different lowercased labels, below
\* every node it descends into and at the root.
RECURSIVE DistinctSiblings(_)
DistinctSiblings(nodes) ==
  /\ \A i, j \in 1..Len(nodes) :
       i # j => toLowerCase(nodes[i].current.s) # toLowerCase(nodes[j].current.s)
  /\ \A i \in 1..Len(nodes) :
       Descends(nodes[i]) => DistinctSiblings(nodes[i].child.a)

CleanForest(nodes) ==
  /\ DistinctSiblings(nodes)
  /\ \A i \in 1..Len(flattenPolicyStructure(nodes)) :
       CleanLabel(flattenPolicyStructure(nodes)[i].name.s)

\* C1 amended: the round-trip holds in every forest in which no label that flatten
\* reports contains '>' or has leading or trailing whitespace and no two siblings
\* that flatten visits have the same lowercased label.
C1_RoundTripCleanForest ==
  (op = "node" /\ CleanForest(forest)) =>
    \A i \in EntriesWithPath(forest, out.path) :
      out.foundNode = Found(flattenPolicyStructure(forest)[i].node)

\* C1 witness: a node two levels down, below a root with a sibling, resolved by
\* its own path in a forest with clean labels.
C1_Witness ==
  /\ op = "node"
  /\ CleanForest(forest)
  /\ Len(forest) = 2
  /\ out.foundNode.res = "found"
  /\ Len(out.foundNode.node) = 2
  /\ EntriesWithPath(forest, out.path) # {}

\* The nodes reached from the roots through the children of flagged nodes only.
RECURSIVE CountFlaggedNodes(_)
RECURSIVE CountFlaggedNodesFrom(_, _)
CountFlaggedNodesFrom(nodes, i) ==
  IF i > Len(nodes) THEN 0
  ELSE 1 + (IF Field(nodes[i], "child_exists") = Bool(TRUE)
               /\ Field(nodes[i], "child").t = "array"
            THEN CountFlaggedNodes(nodes[i].child.a) ELSE 0)
         + CountFlaggedNodesFrom(nodes, i + 1)

CountFlaggedNodes(nodes) == CountFlaggedNodesFrom(nodes, 1)

\* C3 as stated: the length of flatten's output is the number of nodes of the
\* forest, every nested descendant present in any children sequence counted.
C3_LengthCountsEveryNode ==
  op = "flatten" => Len(out) = CountEveryNode(forest)

\* C3 amended: the length of flatten's output is the number of nodes reached from
\* the roots through the children of nodes whose flag is true; nodes held in the
\* children of a node whose flag is false are not counted.
C3_LengthCountsFlaggedNodes ==
  op = "flatten" => Len(out) = CountFlaggedNodes(forest)

\* C3 witness: flatten of a forest with a nested descendant two levels down.
C3_Witness ==
  /\ op = "flatten"
  /\ Len(out) = 3
  /\ \E i \in 1..Len(out) : out[i].level = 3

\* The stored labels from the root down to the node at pos.
LabelsTo(nodes, pos) ==
  [k \in 1..Len(pos) |-> NodeAt(nodes, SubSeq(pos, 1, k)).current.s]

\* label1 > label2 > ... > labelN
RECURSIVE PathText(_)
PathText(labels) ==
  IF Len(labels) = 1 THEN labels[1]
  ELSE PathText(SubSeq(labels, 1, Len(labels) - 1)) \o <<" ", ">", " ">>
       \o labels[Len(labels)]

\* C4: in flatten's output a root has level 1, any other node the level of its
\* parent plus 1; the path is the stored labels from the root to the node joined
\* by ' > ', and the level is the number of path segments.
C4_LevelsAndPaths ==
  op = "flatten" =>
    \A i \in 1..Len(out) :
      LET e == out[i]
          up == SubSeq(e.node, 1, Len(e.node) - 1)
      IN /\ Len(e.node) = 1 => e.level = 1
         /\ Len(e.node) > 1 =>
              \E j \in 1..(i - 1) : out[j].node = up /\ e.level = out[j].level + 1
         /\ e.path = PathText(LabelsTo(forest, e.node))
         /\ e.level = Len(LabelsTo(forest, e.node))
         /\ e.level = Len(e.full_path)

\* C4 witness: an entry at level 3 whose path has an upper-case label in it.
C4_Witness ==
  /\ op = "flatten"
  /\ \E i \in 1..Len(out) :
       /\ out[i].level = 3
       /\ \E k \in 1..Len(out[i].path) : out[i].path[k] = "A"

\* The rule of the Structure Validator, as the specification words it.
RECURSIVE WellFormed(_)
WellFormed(node) ==
  /\ node.t = "object"
  /\ node.current.t = "string"
  /\ node.current.s # <<>>
  /\ node.child_exists.t = "boolean"
  /\ node.child_exists.b =>
       /\ node.child.t = "array"
       /\ \A k \in 1..Len(node.child.a) : WellFormed(node.child.a[k])

\* C8: the validator accepts a node exactly when it has a non-empty string label,
\* a boolean flag and, with the flag true, a children array of valid nodes; with
\* the flag false the children field is not looked at.  {hasChildren: true}
\* without children is rejected, {label: "fire", hasChildren: false} accepted.
C8_ValidatorRule ==
  /\ op = "validate" => out = (\A k \in 1..Len(forest) : WellFormed(forest[k]))
  /\ ~validatePolicyNode(Node(Undef, Bool(TRUE), Undef))
  /\ validatePolicyNode(Node(Str(<<"f", "i", "r", "e">>), Bool(FALSE), Undef))

\* C8 witness: a forest rejected because a nested flagged node has no children
\* array, next to a node whose children field is ignored under a false flag.
C8_Witness ==
  /\ op = "validate"
  /\ out = FALSE
  /\ Len(forest) = 1
  /\ forest[1].t = "object"
  /\ forest[1].child_exists = Bool(TRUE)
  /\ forest[1].child.t = "array"
  /\ Len(forest[1].child.a) = 1
  /\ forest[1].child.a[1] = Node(Str(<<"a">>), Bool(TRUE), Undef)

\* The index of the entry of flat produced by the node at pos, 0 if there is none.
EntryIndex(flat, pos) ==
  IF \E j \in 1..Len(flat) : flat[j].node = pos
  THEN CHOOSE j \in 1..Len(flat) : flat[j].node = pos
  ELSE 0

\* C10: every entry of leaves is an entry of flatten with the same label, path,
\* level and path segments and with hasChildren = false, and the leaves keep the
\* relative order they have in flatten.
C10_LeavesWithinFlatten ==
  op = "leaves" =>
    LET flat == flattenPolicyStructure(forest)
    IN /\ \A i \in 1..Len(out) :
            LET j == EntryIndex(flat, out[i].node)
            IN /\ j # 0
               /\ flat[j].name = out[i].name
               /\ flat[j].path = out[i].path
               /\ flat[j].level = out[i].level
               /\ flat[j].full_path = out[i].full_path
               /\ flat[j].has_children = Bool(FALSE)
       /\ \A i, k \in 1..Len(out) :
            i < k => EntryIndex(flat, out[i].node) < EntryIndex(flat, out[k].node)

\* C10 witness: two leaves, one of them below an internal node that flatten
\* reports and leaves does not.
C10_Witness ==
  /\ op = "leaves"
  /\ Len(out) = 2
  /\ \E i \in 1..Len(out) : out[i].level = 2
  /\ Len(flattenPolicyStructure(forest)) = 3

\* counts[l], 0 for a level counts has no key for.
CountAt(counts, l) == IF l \in DOMAIN counts THEN counts[l] ELSE 0

RootInsertDone == op = "insert" /\ ~Truthy(out.parentPath) /\ out.outcome.status = 200

OtherLevelsUnchanged(before, after) ==
  \A l \in ((DOMAIN before) \cup (DOMAIN after)) \ {1} :
    CountAt(after, l) = CountAt(before, l)

BringsFlaggedChildren(newNode) ==
  /\ Truthy(Field(newNode, "child_exists"))
  /\ Truthy(Field(newNode, "child"))
  /\ Field(newNode, "child") # Arr(<<>>)

RECURSIVE ReplaceAt(_, _, _)
ReplaceAt(nodes, pos, node) ==
  IF Len(pos) = 1 THEN [nodes EXCEPT ![pos[1]] = node]
  ELSE [nodes EXCEPT ![pos[1]] =
          [nodes[pos[1]] EXCEPT
             !.child = Arr(ReplaceAt(nodes[pos[1]].child.a, Tail(pos), node))]]

\* The children sequence of node, empty when it has none.
ChildrenOf(node) == IF node.child.t = "array" THEN node.child.a ELSE <<>>



MarineAfterInsert ==
  insertNode(Arr(MarineForest), Str(Marine), Node(Str(Demurrage), Undef, Undef))

ParentInsertDone == op = "insert" /\ Truthy(out.parentPath) /\ out.outcome.status = 200

AddSucceeded == resp.handler = "addPolicyNode" /\ resp.status = 200

\* C2: after a successful addPolicyNode the data of the record is the mutated
\* forest as a sequence of nodes, so that later reads and a second addPolicyNode
\* work on that forest.
C2_InsertPersistsSequence ==
  AddSucceeded => policyType[resp.id].t = "array"

\* Some chain of nodes, each a child of the one before, carries the labels of path
\* (compared in lower case) from a root on.
RECURSIVE Resolves(_, _)
Resolves(nodes, path) ==
  /\ path # <<>>
  /\ \E i \in 1..Len(nodes) :
       /\ Field(nodes[i], "current").t = "string"
       /\ toLowerCase(nodes[i].current.s) = path[1]
       /\ \/ Len(path) = 1
          \/ /\ Field(nodes[i], "child").t = "array"
             /\ Resolves(nodes[i].child.a, Tail(path))

\* The step answers an addPolicyNode request.
AddStep == resp'.handler = "addPolicyNode"

\* The step answers an addPolicyNode with an accepted newNode and a parentPath no
\* chain of the stored forest of the record resolves.
UnresolvedAddStep ==
  /\ AddStep
  /\ Truthy(resp'.request[2]) /\ Truthy(Field(resp'.request[2], "current"))
  /\ policyType[resp'.id].t = "array"
  /\ resp'.request[1].t = "string"
  /\ ~Resolves(policyType[resp'.id].a, pathArray(resp'.request[1].s))

SuppliedForests(response) ==
  IF response.handler \in {"createPolicy", "updatePolicy"}
  THEN IF response.request[1].t = "array" THEN {response.request[1].a} ELSE {}
  ELSE IF response.handler = "bulkCreatePolicies" /\ response.request[1].t = "array"
  THEN {Field(response.request[1].a[i], "data").a :
          i \in {j \in 1..Len(response.request[1].a) :
                   Field(response.request[1].a[j], "data").t = "array"}}
  ELSE {}

\* The step answers a create, update or bulk create that supplies a forest the
\* validator turns down.
InvalidWriteStep ==
  /\ resp'.handler \in {"createPolicy", "updatePolicy", "bulkCreatePolicies"}
  /\ \E supplied \in SuppliedForests(resp') : ~isValidStructure(supplied)

\* C9: a create, update or bulk create that supplies a forest with an invalid node
\* is answered with a client error (a 4xx status) and leaves the table as it was.
C9_InvalidForestRejected ==
  [][InvalidWriteStep =>
       /\ resp'.status \in 400..499
       /\ policyType' = policyType]_vars

\* C9, the part on the table alone: such a request leaves the table as it was,
\* whatever the status of the answer.
C9_InvalidForestNotWritten ==
  [][InvalidWriteStep =>
       /\ resp'.status >= 400
       /\ policyType' = policyType]_vars

\* ------------------------------------------------------------ claims on lookup
\* Some chain of nodes from a root on, each held in the child of the one before
\* under a truthy flag, carries the labels of path compared in lower case.
RECURSIVE HasChain(_, _)
HasChain(nodes, path) ==
  /\ path # <<>>
  /\ \E i \in 1..Len(nodes) :
       /\ toLowerCase(nodes[i].current.s) = path[1]
       /\ \/ Len(path) = 1
          \/ /\ Descends(nodes[i])
             /\ HasChain(nodes[i].child.a, Tail(path))

\* C11: findNodeByPath returns null when a segment of the path matches no node at
\* its level, in particular when the first segment is the lowercased label of no
\* root, and getPolicyNodeByPath then answers 404.
C11_NoMatchIsNotFound ==
  op = "node" =>
    /\ ~HasChain(forest, out.pathArray) =>
         /\ out.foundNode = NotFound
         /\ out.answer.status = 404
    /\ (\A i \in 1..Len(forest) : toLowerCase(forest[i].current.s) # out.pathArray[1]) =>
         /\ out.foundNode = NotFound
         /\ out.answer.status = 404
    /\ out.answer.status = 404 <=> out.foundNode = NotFound

\* C11 witness: the first segment matches a root that has children, the second
\* matches none of them, and the answer is 404.
C11_Witness ==
  /\ op = "node"
  /\ Len(out.pathArray) = 2
  /\ \E i \in 1..Len(forest) :
       /\ toLowerCase(forest[i].current.s) = out.pathArray[1]
       /\ Descends(forest[i])
       /\ forest[i].child.a # <<>>
  /\ out.foundNode = NotFound
  /\ out.answer.status = 404

\* ------------------------------------------------------------ claims on search
\* The upper case of the letters of the labels and terms.
Upper(c) == IF c = "a" THEN "A" ELSE IF c = "b" THEN "B" ELSE c
toUpperCase(s) == [i \in 1..Len(s) |-> Upper(s[i])]

\* Some node held in any child array, under whatever flag, has a label that
\* contains term, both in lower case.
RECURSIVE SomeNodeContains(_, _)
SomeNodeContains(nodes, term) ==
  \E i \in 1..Len(nodes) :
    \/ includes(toLowerCase(nodes[i].current.s), toLowerCase(term))
    \/ /\ Field(nodes[i], "child").t = "array"
       /\ SomeNodeContains(nodes[i].child.a, term)

\* Some entry of the flattened forest has a name that contains term, both in
\* lower case.
SomeEntryContains(nodes, term) ==
  \E i \in 1..Len(flattenPolicyStructure(nodes)) :
    includes(toLowerCase(flattenPolicyStructure(nodes)[i].name.s), toLowerCase(term))

\* C12 as stated: searchInPolicyData is true exactly when some node of the forest,
\* at any depth and in any branch, has a label that contains the term, both in
\* lower case.
C12_MatchesAnyNode ==
  op = "search" => (out.matches <=> SomeNodeContains(forest, out.searchTerm))

\* C12 amended: searchInPolicyData is true exactly when a node that
\* flattenPolicyStructure reports (one reached through children under a true
\* flag) has a label that contains the term, both in lower case; the term in
\* upper case and in lower case give the same result.
C12_MatchesFlaggedNode ==
  op = "search" =>
    /\ out.matches <=> SomeEntryContains(forest, out.searchTerm)
    /\ out.matches = searchInPolicyData(forest, toLowerCase(out.searchTerm))
    /\ out.matches = searchInPolicyData(forest, toUpperCase(out.searchTerm))

\* C12 witness: the term in upper case matches a label in lower case that is not
\* a root's.
C12_Witness ==
  /\ op = "search"
  /\ out.searchTerm = <<">", "B">>
  /\ out.matches
  /\ \A i \in 1..Len(forest) : ~includes(toLowerCase(forest[i].current.s), <<"b">>)

\* ------------------------------------------------------------ claims on the analyzer
\* The number of nodes at depth d, counting the nodes of every child array under
\* whatever flag.
RECURSIVE NodesAtDepth(_, _)
RECURSIVE NodesAtDepthFrom(_, _, _)
NodesAtDepthFrom(nodes, i, d) ==
  IF i > Len(nodes) THEN 0
  ELSE (IF Field(nodes[i], "child").t = "array"
        THEN NodesAtDepth(nodes[i].child.a, d - 1) ELSE 0)
       + NodesAtDepthFrom(nodes, i + 1, d)

NodesAtDepth(nodes, d) ==
  IF d = 1 THEN Len(nodes) ELSE NodesAtDepthFrom(nodes, 1, d)

\* The number of entries of the flattened forest at level l.
EntriesAtLevel(nodes, l) ==
  Cardinality({i \in 1..Len(flattenPolicyStructure(nodes)) :
                 flattenPolicyStructure(nodes)[i].level = l})

\* The levels a forest within the bounds can have, and one more.
Levels == 1..(MaxNodes + 2)

\* C13 as stated: countNodesByLevel maps each level to the number of nodes of the
\* forest at that depth.
C13_CountsEveryNodeOfTheLevel ==
  op = "count" => \A l \in DOMAIN out : out[l] = NodesAtDepth(forest, l)

\* C13 amended: countNodesByLevel maps each level to the number of nodes at that
\* depth that are reached through children under a true flag (the entries of the
\* flattened forest at that level) and has no key for a level that is deeper than
\* one past the last such node; totalNodes is the sum of the counts, which is the
\* length of the flattened forest, and maxDepth is the largest key.
C13_CountsFlaggedNodesOfTheLevel ==
  op = "count" =>
    /\ \A l \in DOMAIN out : out[l] = EntriesAtLevel(forest, l)
    /\ \A l \in Levels \ DOMAIN out : EntriesAtLevel(forest, l) = 0
    /\ DOMAIN out \subseteq Levels
    /\ totalNodes(out) = Len(flattenPolicyStructure(forest))
    /\ maxDepth(out) \in DOMAIN out
    /\ \A l \in DOMAIN out : l <= maxDepth(out)

\* C13 witness: two roots, one of which has a child: two levels, three nodes.
C13_Witness ==
  /\ op = "count"
  /\ DOMAIN out = {1, 2}
  /\ out[1] = 2
  /\ out[2] = 1
  /\ totalNodes(out) = 3
  /\ maxDepth(out) = 2

\* ------------------------------------------------------------ claims on the stored forests
\* Some node of nodes, at any depth, has a false flag and a non-empty child array.
RECURSIVE HasStrayChildren(_)
HasStrayChildren(nodes) ==
  \E i \in 1..Len(nodes) :
    /\ Field(nodes[i], "child").t = "array"
    /\ \/ ~Truthy(Field(nodes[i], "child_exists")) /\ nodes[i].child.a # <<>>
       \/ HasStrayChildren(nodes[i].child.a)

EmptyForestResult ==
  /\ op = "flatten" => out = <<>>
  /\ op = "leaves" => out = <<>>
  /\ op = "search" => ~out.matches
  /\ op = "node" => out.foundNode = NotFound

\* C15: on the empty forest flatten and leaves give empty sequences, the search
\* matches nothing, the lookup finds nothing, and the analyzer counts no node
\* and reports no level that has no node.
C15_EmptyForestEmptyResults ==
  forest = <<>> =>
    /\ EmptyForestResult
    /\ op = "count" =>
         /\ totalNodes(out) = 0
         /\ \A l \in DOMAIN out : out[l] > 0

\* C15, the part that holds: on the empty forest no function throws, the results
\* other than the analyzer's are empty, and the analyzer counts no node.
C15_EmptyForestNoError ==
  forest = <<>> =>
    /\ EmptyForestResult
    /\ op = "count" => totalNodes(out) = 0

\* ------------------------------------------------------------ claims on concurrent requests
\* Both requests read the record before either wrote it, and both have written.
BothReadBeforeEitherWrote ==
  /\ inflight.handler = "addPolicyNode"
  /\ Len(inflight.log) = 4
  /\ inflight.log[1][1] = "find"
  /\ inflight.log[2][1] = "find"

\* The request that wrote last.
LastWriter == inflight.log[4][2]

\* C16: when both addPolicyNode requests read the record before either writes
\* it, the record ends with the whole forest the last writer computed from what
\* it read (as update serializes it): that forest holds the node of the last
\* writer and not the node of the other request.
C16_LastWriterWins ==
  BothReadBeforeEitherWrote =>
    LET last == LastWriter
        computed == inflight.policyData[last]
    IN /\ policyType[1] = Str(stringify(computed))
       /\ CountEveryNode(computed.a) = CountEveryNode(inflight.policy[last].a) + 1
       /\ SomeNodeContains(computed.a, RaceLabel(last))
       /\ ~SomeNodeContains(computed.a, RaceLabel(Other(last)))
       /\ policyType[1] # Str(stringify(inflight.policyData[Other(last)]))

\* C16 witness: both requests read the marine forest, both insert under marine,
\* request 2 writes first and request 1 last.
C16_Witness ==
  /\ BothReadBeforeEitherWrote
  /\ inflight.policy[1] = Arr(MarineForest)
  /\ inflight.request[1].parentPath = Str(Marine)
  /\ inflight.request[2].parentPath = Str(Marine)
  /\ inflight.log[3] = <<"update", 2>>
  /\ LastWriter = 1

\* ------------------------------------------------------------ claims on the first match
\* The siblings of nodes whose lowercased label is segment, in input order.
Matching(nodes, segment) ==
  {i \in 1..Len(nodes) : toLowerCase(nodes[i].current.s) = segment}

\* The resolution that considers only the first matching sibling at every level.
RECURSIVE FirstMatchOnly(_, _, _)
FirstMatchOnly(nodes, path, at) ==
  IF Matching(nodes, path[1]) = {} THEN NotFound
  ELSE LET first == CHOOSE i \in Matching(nodes, path[1]) :
                      \A j \in Matching(nodes, path[1]) : i <= j
       IN IF Len(path) = 1 THEN Found(Append(at, first))
          ELSE IF Descends(nodes[first])
               THEN FirstMatchOnly(nodes[first].child.a, Tail(path), Append(at, first))
               ELSE NotFound

\* C17: findNodeByPath considers only the first sibling whose lowercased label
\* equals the segment: it returns that node at the last segment, and with
\* segments left and no qualifying children under that node it returns null
\* without trying a later sibling of the same label.
C17_FirstMatchOnly ==
  op = "node" => out.foundNode = FirstMatchOnly(forest, out.pathArray, <<>>)

\* C17, the part that holds: at the last segment the node returned is the first
\* sibling of its level whose lowercased label equals the segment.
C17_FirstMatchAtLastSegment ==
  op = "node" /\ out.foundNode.res = "found" =>
    LET pos == out.foundNode.node
        siblings == IF Len(pos) = 1 THEN forest
                    ELSE NodeAt(forest, SubSeq(pos, 1, Len(pos) - 1)).child.a
    IN \A j \in Matching(siblings, out.pathArray[Len(out.pathArray)]) :
         pos[Len(pos)] <= j

\* ------------------------------------------------------------ claims on the parent walk
\* An addPolicyNode with a parentPath and an accepted newNode was answered.
ParentInsertAnswered ==
  /\ op = "insert"
  /\ Truthy(out.parentPath)
  /\ out.outcome.status # 400

\* C18: addPolicyNode with parentPath P succeeds exactly when findNodeByPath
\* finds a node for P, and the node it appends to is the node findNodeByPath
\* returns.
C18_InsertResolvesAsLookup ==
  ParentInsertAnswered =>
    LET foundNode == findNodeByPath(forest, pathArray(out.parentPath.s))
    IN /\ out.outcome.status = 200 <=> foundNode.res = "found"
       /\ out.outcome.status = 200 => out.outcome.parent = foundNode.node

\* Every node of nodes, at any depth, has no child field or a true flag and a
\* child array.
RECURSIVE FlagsAgreeWithChildren(_)
FlagsAgreeWithChildren(nodes) ==
  \A i \in 1..Len(nodes) :
    \/ Field(nodes[i], "child").t = "undefined"
    \/ /\ Field(nodes[i], "child").t = "array"
       /\ Truthy(Field(nodes[i], "child_exists"))
       /\ FlagsAgreeWithChildren(nodes[i].child.a)

\* C18, the part that holds: in a forest where only nodes with a true flag carry
\* a child field, the insertion succeeds exactly when findNodeByPath finds a node
\* for P, and appends to that node.
C18_InsertResolvesAsLookupWhenFlagsAgree ==
  ParentInsertAnswered /\ FlagsAgreeWithChildren(forest) =>
    LET foundNode == findNodeByPath(forest, pathArray(out.parentPath.s))
    IN /\ out.outcome.status = 200 <=> foundNode.res = "found"
       /\ out.outcome.status = 200 => out.outcome.parent = foundNode.node

\* ------------------------------------------------------------ claims on the order of flatten
\* Position p is a proper prefix of position q: the node at q is a descendant of
\* the node at p.
IsAncestor(p, q) == Len(p) < Len(q) /\ SubSeq(q, 1, Len(p)) = p

\* Positions p and q are siblings and p comes first in the input.
IsEarlierSibling(p, q) ==
  /\ Len(p) = Len(q)
  /\ SubSeq(p, 1, Len(p) - 1) = SubSeq(q, 1, Len(q) - 1)
  /\ p[Len(p)] < q[Len(q)]

\* C19: in the flattened forest each node comes before all of its descendants,
\* the entries of its subtree are one block right after it, siblings come in
\* input order, and flattening the same forest again gives the same sequence.
C19_PreOrder ==
  op = "flatten" =>
    /\ \A i, j \in 1..Len(out) :
         /\ IsAncestor(out[i].node, out[j].node) => i < j
         /\ IsEarlierSibling(out[i].node, out[j].node) => i < j
    /\ \A i \in 1..Len(out) :
         LET subtree == {j \in 1..Len(out) : IsAncestor(out[i].node, out[j].node)}
         IN subtree = (i + 1)..(i + Cardinality(subtree))
    /\ \A i, j \in 1..Len(out) : i # j => out[i].node # out[j].node
    /\ out = flattenPolicyStructure(forest)

\* C19 witness: a root with a child, followed by a second root.
C19_Witness ==
  /\ op = "flatten"
  /\ Len(out) = 3
  /\ out[1].node = <<1>>
  /\ out[2].node = <<1, 1>>
  /\ out[3].node = <<2>>

RECURSIVE UnflaggedPositions(_, _, _)
UnflaggedPositions(nodes, at, everyChild) ==
  UNION {
    (IF ~Truthy(Field(nodes[i], "child_exists")) THEN {Append(at, i)} ELSE {})
    \cup (IF /\ Field(nodes[i], "child").t = "array"
             /\ everyChild \/ Truthy(Field(nodes[i], "child_exists"))
          THEN UnflaggedPositions(nodes[i].child.a, Append(at, i), everyChild)
          ELSE {})
    : i \in 1..Len(nodes)}

\* The positions of the nodes getLeafNodes reported.
EmittedPositions == {out[i].node : i \in 1..Len(out)}

\* C21 as stated: getLeafNodes emits a node exactly when its flag is false.
C21_EmitsEveryUnflaggedNode ==
  op = "leaves" => EmittedPositions = UnflaggedPositions(forest, <<>>, TRUE)

\* C21 amended: getLeafNodes emits exactly the nodes with a false flag that are
\* reached through children under a true flag, each once; a node with a true
\* flag is never emitted, whether its children are there, empty or missing.
C21_EmitsUnflaggedNodesReached ==
  op = "leaves" =>
    /\ EmittedPositions = UnflaggedPositions(forest, <<>>, FALSE)
    /\ Cardinality(EmittedPositions) = Len(out)
    /\ \A i \in 1..Len(out) : ~Truthy(NodeAt(forest, out[i].node).child_exists)

\* C21 witness: a root with a true flag and no children next to a root whose
\* only child is a leaf: the leaf alone is emitted.
C21_Witness ==
  /\ op = "leaves"
  /\ Len(forest) = 2
  /\ \E i \in 1..2 : forest[i].child_exists = Bool(TRUE) /\ forest[i].child = Arr(<<>>)
  /\ Len(out) = 1
  /\ Len(out[1].node) = 2

\* ------------------------------------------------------------ claims on the read requests

MatchingRecords(query) ==
  LET all == findMany
      matching == {k \in 1..Len(all) : searchInPolicyData(policyType[all[k]].a, query)}
  IN [n \in 1..Cardinality(matching) |->
        LET k == CHOOSE k \in matching : Cardinality({j \in matching : j < k}) = n - 1
        IN [id |-> all[k], data |-> policyType[all[k]]]]
RequestedPage == resp.body.pagination.page
RequestedLimit == IF Truthy(parseInt(resp.request[3])) THEN parseInt(resp.request[3]).n ELSE 10
PageParam(p) == Str(<<Digits[p + 1]>>)

\* The data of the pages 1..pages of the search answered last, one after the other.
RECURSIVE PagesTo(_)
PagesTo(p) ==
  IF p = 0 THEN <<>>
  ELSE PagesTo(p - 1) \o searchPolicies(resp.request[1], PageParam(p), resp.request[3]).body.data

\* The answer of a search is the page of the matching records.
PaginatesMatches ==
  LET matching == MatchingRecords(resp.request[1].s)
      total == Len(matching)
      from == (RequestedPage - 1) * RequestedLimit
  IN /\ resp.body.pagination.total = total
     /\ resp.body.pagination.pages * RequestedLimit >= total
     /\ (resp.body.pagination.pages - 1) * RequestedLimit < total \/ total = 0
     /\ resp.body.pagination.pages >= 0
     /\ resp.body.data =
          [k \in 1..(IF from >= total THEN 0
                     ELSE IF from + RequestedLimit > total THEN total - from
                     ELSE RequestedLimit) |-> matching[from + k]]
     /\ PagesTo(resp.body.pagination.pages) = matching

\* C23 as stated: searchPolicies filters the records before it paginates. For a
\* request with a query the total is the number of matching records, pages is
\* ceil(total / limit), the data is the slice [(page-1)*limit, page*limit) of the
\* matching records in stored order, and the pages 1..pages hold every matching
\* record exactly once.
C23_SearchPaginatesMatches ==
  (resp.handler = "searchPolicies" /\ Truthy(resp.request[1])) =>
    (resp.status = 200 /\ PaginatesMatches)

\* Every record of the table holds an array.
ArrayRecords == \A id \in DOMAIN policyType : policyType[id].t \in {"none", "array"}

\* C23, the part that holds: on a table whose records all hold arrays the answer
\* of a search with a query is the page of the matching records.
C23_PaginatesMatchesOfArrayRecords ==
  (resp.handler = "searchPolicies" /\ Truthy(resp.request[1]) /\ ArrayRecords) =>
    (resp.status = 200 /\ PaginatesMatches)

\* A second page that holds the second of two matching records.
C23_Witness ==
  /\ resp.handler = "searchPolicies"
  /\ resp.status = 200
  /\ resp.body.pagination.total = 2
  /\ resp.body.pagination.page = 2
  /\ Len(resp.body.data) = 1

\* ------------------------------------------------------------ claims on the stored forests

\* C24 as stated: the insertion of a client-supplied newNode never makes a valid
\* stored forest invalid; the forest a successful addPolicyNode writes satisfies
\* the validator.
C24_InsertKeepsForestValid ==
  (op = "insert" /\ out.outcome.written) => isValidStructure(out.outcome.policyData.a)

\* C24, the part that holds: when the newNode satisfies the validator itself and
\* only nodes with a true flag carry a child field in the stored forest, the
\* forest a successful addPolicyNode writes satisfies the validator.
C24_ValidNodeKeepsForestValid ==
  (/\ op = "insert"
   /\ out.outcome.written
   /\ validatePolicyNode(out.newNode)
   /\ FlagsAgreeWithChildren(forest)) =>
    isValidStructure(out.outcome.policyData.a)

\* A successful insertion of a node that satisfies the validator below a parent.
C24_Witness ==
  /\ op = "insert"
  /\ out.outcome.written
  /\ validatePolicyNode(out.newNode)
  /\ FlagsAgreeWithChildren(forest)
  /\ Truthy(out.parentPath)

\* A step stores a default record.
DefaultCreated ==
  \E id \in 1..MaxPolicies : policyType[id] = NoRecord /\ policyType'[id] = DefaultRecord

\* C27 as stated: in every interleaving of initializeDefaultPolicies,
\* createPolicy and bulkCreatePolicies requests the default record is created
\* only while the table holds no record, so at most one is ever created.
C27_DefaultOnlyIntoEmptyTable == [][DefaultCreated => RecordCount = 0]_vars

\* C27, the part that holds: the default record is created only by a request
\* whose count of the records was 0 when it was answered.
C27_DefaultOnlyAfterCountOfZero ==
  [][DefaultCreated =>
       \E r \in InitRequests :
         /\ inflight.pc[r] = "counted"
         /\ inflight'.pc[r] = "done"
         /\ inflight.existingPolicies[r] = 0]_vars

\* Two default records in the table.
C27_Witness ==
  /\ inflight.handler = "initializeDefaultPolicies"
  /\ Cardinality({id \in 1..MaxPolicies : policyType[id] = DefaultRecord}) >= 2

\* ------------------------------------------------------------ claims on the agreement of the traversals

\* The greatest level of an entry of the flattened forest, 0 when it has none.
GreatestLevel(nodes) ==
  IF flattenPolicyStructure(nodes) = <<>> THEN 0
  ELSE CHOOSE m \in Levels :
         /\ EntriesAtLevel(nodes, m) > 0
         /\ \A l \in Levels : EntriesAtLevel(nodes, l) > 0 => l <= m

\* C25 as stated: the traversals agree on the nodes of every forest. The number
\* of flatten entries at level L is nodeCountsByLevel[L] for every L, the
\* total_nodes of getPolicyStructure is the totalNodes of the analytics, and for
\* a forest that is not empty maxDepth is the greatest level of a flatten entry,
\* no level key having the count 0.
C25_TraversalsAgree ==
  op = "count" =>
    /\ \A l \in Levels : EntriesAtLevel(forest, l) = CountAt(out, l)
    /\ Len(flattenPolicyStructure(forest)) = totalNodes(out)
    /\ forest # <<>> =>
         /\ maxDepth(out) = GreatestLevel(forest)
         /\ \A l \in DOMAIN out : out[l] > 0

\* C25, the part that holds: the counts of the levels and the totals agree with
\* flatten, and maxDepth is the greatest level of a flatten entry or that level
\* plus 1.
C25_TraversalsAgreeOnTheNodes ==
  op = "count" =>
    /\ \A l \in Levels : EntriesAtLevel(forest, l) = CountAt(out, l)
    /\ Len(flattenPolicyStructure(forest)) = totalNodes(out)
    /\ maxDepth(out) \in {GreatestLevel(forest), GreatestLevel(forest) + 1}

\* The counts of a forest with entries at two levels at least.
C25_Witness ==
  /\ op = "count"
  /\ GreatestLevel(forest) >= 2
  /\ maxDepth(out) = GreatestLevel(forest)

\* ------------------------------------------------------------ claims on insertion followed by lookup

\* The position of the node a successful insertion appended.
InsertedAt ==
  IF Truthy(out.parentPath)
  THEN Append(out.outcome.parent,
              Len(NodeAt(out.outcome.policyData.a, out.outcome.parent).child.a))
  ELSE <<Len(out.outcome.policyData.a)>>

\* The path of the parent followed by the label of the new node, as a lookup
\* takes it.
InsertedPath ==
  (IF Truthy(out.parentPath) THEN pathArray(out.parentPath.s) ELSE <<>>)
  \o <<IF Field(out.newNode, "current").t = "string"
        THEN toLowerCase(out.newNode.current.s)
        ELSE stringify(Field(out.newNode, "current"))>>

\* The lookup of the inserted path finds a node and flatten reports the new node
\* one level below its parent.
FoundAfterInsert ==
  /\ findNodeByPath(out.outcome.policyData.a, InsertedPath).res = "found"
  /\ \E i \in 1..Len(flattenPolicyStructure(out.outcome.policyData.a)) :
       /\ flattenPolicyStructure(out.outcome.policyData.a)[i].node = InsertedAt
       /\ flattenPolicyStructure(out.outcome.policyData.a)[i].level = Len(InsertedPath)

\* C26 as stated: after addPolicyNode inserted a node labelled L under
\* parentPath P, or at the root, the lookup of P followed by the lowercased L on
\* the resulting forest finds a node and flatten has an entry for the new node at
\* the level of the segments of P plus 1.
C26_InsertThenFind ==
  (op = "insert" /\ out.outcome.status = 200) => FoundAfterInsert

\* C26, the part that holds: it is so when the label of the new node is a string
\* and only nodes with a true flag carry a child field in the stored forest.
C26_InsertThenFindWhenFlagsAgree ==
  (/\ op = "insert"
   /\ out.outcome.status = 200
   /\ Field(out.newNode, "current").t = "string"
   /\ FlagsAgreeWithChildren(forest)) => FoundAfterInsert

\* An insertion below a parent that the lookup finds again.
C26_Witness ==
  /\ ParentInsertDone
  /\ FlagsAgreeWithChildren(forest)
  /\ Field(out.newNode, "current").t = "string"
  /\ FoundAfterInsert

\* ------------------------------------------------------------ claims on the Claim table

\* C28 as stated: deletePolicy removes a record only if no claim references it,
\* so after any interleaving of createClaim and deletePolicy requests every
\* stored claim references an existing policy record.
C28_ClaimsReferenceRecords ==
  \A k \in 1..Len(claims) : policyType[claims[k]] # NoRecord

\* C28, the part that holds: a deletePolicy request whose findUnique is answered
\* a record with a claim is answered 400 and removes nothing; a record is removed
\* only by a request whose findUnique was answered no claims.
C28_RemovedOnlyAfterNoClaimsSeen ==
  [][/\ \A r \in ClaimRequests :
          (/\ inflight.request[r].handler = "deletePolicy"
           /\ inflight.pc[r] = "start"
           /\ inflight'.pc[r] # "start"
           /\ policyType[inflight.request[r].id] # NoRecord
           /\ hasClaims(claims, inflight.request[r].id))
          => (inflight'.status[r] = 400 /\ inflight'.pc[r] = "done")
     /\ \A id \in 1..MaxPolicies :
          (policyType[id] # NoRecord /\ policyType'[id] = NoRecord)
          => \E r \in ClaimRequests :
               /\ inflight.request[r] = [handler |-> "deletePolicy", id |-> id]
               /\ inflight.pc[r] = "found"
               /\ inflight'.status[r] = 200]_vars

\* A deletePolicy request turned down for the claim of its record, the record kept.
C28_Witness ==
  /\ inflight.handler = "createClaim"
  /\ \E r \in ClaimRequests :
       /\ inflight.request[r].handler = "deletePolicy"
       /\ inflight.status[r] = 400
       /\ policyType[inflight.request[r].id] # NoRecord
       /\ hasClaims(claims, inflight.request[r].id)

\* ------------------------------------------------------------ claims on the rate limit

\* The requests of the client that were passed to next() in the last windowMs.
PassedInWindow(ip) ==
  Cardinality({k \in 1..Len(inflight.next[ip]) :
                 inflight.next[ip][k] > clock - inflight.windowMs})

\* The times recorded for the client.
Recorded(map, ip) == IF ip \in DOMAIN map THEN map[ip] ELSE <<>>

\* At this instant no client has more than max requests passed in the window; a
\* request answered 429 adds no time to the record of its client; a request of
\* one client leaves the record of every other client as it was.
LimitKept ==
  /\ \A ip \in Ips : PassedInWindow(ip)' <= inflight.max
  /\ \A ip \in Ips :
       (resp' # resp /\ resp'.id = ip /\ resp'.status = 429) =>
         /\ Len(Recorded(requests', ip)) <= Len(Recorded(requests, ip))
         /\ inflight'.next = inflight.next
  /\ \A ip \in Ips :
       (requests' # requests /\ resp'.id # ip) =>
         /\ Recorded(requests', ip) = Recorded(requests, ip)
         /\ inflight'.next[ip] = inflight.next[ip]

\* C29 as stated: for each client and at every instant rateLimit has passed at
\* most max requests with times inside the last windowMs to next(); a request
\* rejected with 429 is not recorded; the requests of one client never affect
\* the count of another.
C29_AtMostMaxPass == [][LimitKept]_vars

\* C29, the part that holds: it is so for every max of 1 or more.
C29_AtMostMaxPassForPositiveMax == [][inflight.max >= 1 => LimitKept]_vars

\* A client at its limit is turned down, and the other client is still served.
C29_Witness ==
  /\ inflight.handler = "rateLimit"
  /\ inflight.max >= 1
  /\ resp.handler = "rateLimit"
  /\ resp.status = 429
  /\ \E ip \in Ips : ip # resp.id /\ PassedInWindow(ip) < inflight.max

\* ------------------------------------------------------------ claims on the reset of a password

\* The resetPassword requests with the token that were answered 200.
ResetsDone(token) ==
  {r \in ResetRequests :
     /\ inflight.request[r].handler = "resetPassword"
     /\ inflight.request[r].token = token
     /\ inflight.status[r] = 200}

\* C30 as stated: a token issued by forgotPassword completes at most one
\* successful resetPassword; once one reset with the token has succeeded, a
\* later or concurrently interleaved reset with it is rejected and leaves the
\* stored hash as it is.
C30_OneResetPerToken ==
  [][\A r \in ResetRequests :
       (/\ inflight.request[r].handler = "resetPassword"
        /\ ResetsDone(inflight.request[r].token) # {}
        /\ inflight.pc[r] # "done"
        /\ inflight'.pc[r] = "done")
       => (inflight'.status[r] = 400 /\ auth'.current_hash = auth.current_hash)]_vars

\* C30, the part that holds: a resetPassword whose lookup of the token is
\* answered after a reset with the token has succeeded is rejected and leaves
\* the stored hash as it is.
C30_LaterResetRejected ==
  [][\A r \in ResetRequests :
       (/\ inflight.request[r].handler = "resetPassword"
        /\ ResetsDone(inflight.request[r].token) # {}
        /\ inflight.pc[r] = "start"
        /\ inflight'.pc[r] # "start")
       => (/\ inflight'.pc[r] = "done"
           /\ inflight'.status[r] = 400
           /\ auth' = auth)]_vars

\* A reset turned down after another reset with its token has succeeded.
C30_Witness ==
  /\ inflight.handler = "resetPassword"
  /\ \E r \in ResetRequests :
       /\ inflight.request[r].handler = "resetPassword"
       /\ inflight.status[r] = 400
       /\ ResetsDone(inflight.request[r].token) # {}

====
